---- MODULE Spec2Model ----
(***************************************************************************)
(* DroneComms wire protocol of Recon: the field codec, the Packet framing  *)
(* and resynchronisation machine, and the message catalog, as they are    *)
(* written in SRC/Modules/Shadow-Detection/calib.h.                        *)
(*                                                                         *)
(* Representation of the C++ values:                                       *)
(*   uint8_t   a number 0..255                                             *)
(*   uint16_t  a number 0..65535                                           *)
(*   uint32_t  a record [hi, lo] of its two 16-bit halves                  *)
(*   uint64_t  a tuple <<w3, w2, w1, w0>> of its four 16-bit words         *)
(*   int8_t, int16_t, int32_t   the number itself                          *)
(*   int64_t   a record [hi, lo]: hi the number x >> 32 (an int32_t), lo   *)
(*             the low 32 bits as a uint32_t                               *)
(*   float     its IEEE-754 bit pattern as a uint32_t (what the            *)
(*             reinterpret_cast of the codec reads)                        *)
(*   double    its IEEE-754 bit pattern as a uint64_t                      *)
(*   std::vector<uint8_t>, std::string   a sequence of bytes               *)
(*   const_iterator   the 0-based offset of the byte it points at          *)
(***************************************************************************)
EXTENDS Integers, Sequences, FiniteSets, TLC

\* Longest buffer the free-running transport of Spec builds byte by byte.
MaxBuf == 7

\* Longest waypoint list of an ExecuteWaypointMission message of the model.
MaxWaypoints == 2

VARIABLES
    m_data,                  \* Packet::m_data
    M_highLevelFieldsValid,  \* Packet::M_highLevelFieldsValid
    m_size,                  \* Packet::m_size   (NoHeader while not cached)
    m_PID,                   \* Packet::m_PID    (NoHeader while not cached)
    lastOp,                  \* name of the operation that produced this state
    ret,                     \* what that operation returned / was called with
    wire,                    \* bytes the transport has still to hand over
    pc,                      \* position of the receiver in its loop
    delivered,               \* results of the Deserialize calls of the receiver
    sent,                    \* the messages the sender serialized, in order
    junk,                    \* the bytes on the wire ahead of the first packet
    m_mutex,                 \* ShadowPropagationEngine::m_mutex: the thread holding it, or "free"
    m_running,               \* ShadowPropagationEngine::m_running
    m_callbackHandle,        \* ShadowPropagationEngine::m_callbackHandle
    m_callbacks,             \* ShadowPropagationEngine::m_callbacks: token -> callback
    m_unprocessedShadowMaps, \* ShadowPropagationEngine::m_unprocessedShadowMaps
    detectionCallbacks,      \* callbacks registered with the ShadowDetectionEngine: handle -> owner
    calls,                   \* per thread: the statement it is at and its local value
    arrived,                 \* number of shadow maps the detection engine has produced
    processedMaps            \* the shadow maps the processing thread has taken, in order

engineVars ==
    <<m_mutex, m_running, m_callbackHandle, m_callbacks, m_unprocessedShadowMaps,
      detectionCallbacks, calls, arrived, processedMaps>>

vars ==
    <<m_data, M_highLevelFieldsValid, m_size, m_PID, lastOp, ret, wire, pc, delivered, sent,
      junk, engineVars>>

packetVars == <<m_data, M_highLevelFieldsValid, m_size, m_PID>>

loopVars == <<wire, pc, delivered, sent, junk>>

(***************************************************************************)
(* Fixed-width integers                                                    *)
(***************************************************************************)
U32(hi, lo) == [hi |-> hi, lo |-> lo]

\* uint32_t(n) for a small natural n (a size_t that fits 31 bits)
U32OfNat(n) == [hi |-> (n \div 65536) % 65536, lo |-> n % 65536]

\* a + b on uint32_t, wrapping modulo 2^32
U32Add(a, b) ==
    LET lo == a.lo + b.lo
        hi == a.hi + b.hi + (lo \div 65536)
    IN  [hi |-> hi % 65536, lo |-> lo % 65536]

\* a - b on uint32_t, wrapping modulo 2^32
U32Sub(a, b) ==
    LET borrow == IF a.lo < b.lo THEN 1 ELSE 0
        lo == a.lo - b.lo + 65536 * borrow
        hi == a.hi - b.hi - borrow
    IN  [hi |-> (hi + 65536) % 65536, lo |-> lo]

\* a < b on uint32_t
U32Less(a, b) == a.hi < b.hi \/ (a.hi = b.hi /\ a.lo < b.lo)

\* *Iter for the iterator at offset i of data; past the end the read is
\* outside the vector (undefined behaviour), which the marker OutOfBounds, a
\* value no byte has, records.  The steps that return such a value to the
\* caller resolve it to the outcomes a build can produce.
OutOfBounds == 256

ByteAt(data, i) == IF i >= 0 /\ i < Len(data) THEN data[i + 1] ELSE OutOfBounds

(***************************************************************************)
(* Standard-type field encoders (calib.h 46-76)                            *)
(***************************************************************************)
encodeField_uint8(Buffer, x) == Append(Buffer, x)

encodeField_uint16(Buffer, x) == Buffer \o <<(x \div 256) % 256, x % 256>>

encodeField_uint32(Buffer, x) ==
    Buffer \o <<(x.hi \div 256) % 256, x.hi % 256, (x.lo \div 256) % 256, x.lo % 256>>

encodeField_uint64(Buffer, x) ==
    Buffer \o <<(x[1] \div 256) % 256, x[1] % 256, (x[2] \div 256) % 256, x[2] % 256,
                (x[3] \div 256) % 256, x[3] % 256, (x[4] \div 256) % 256, x[4] % 256>>

\* the signed encoders: the cast to the unsigned type of the same width
\* keeps the value modulo 2^w
encodeField_int8(Buffer, x) == encodeField_uint8(Buffer, x % 256)

encodeField_int16(Buffer, x) == encodeField_uint16(Buffer, x % 65536)

encodeField_int32(Buffer, x) ==
    encodeField_uint32(Buffer, U32((x \div 65536) % 65536, x % 65536))

encodeField_int64(Buffer, x) ==
    encodeField_uint64(Buffer, <<(x.hi \div 65536) % 65536, x.hi % 65536, x.lo.hi, x.lo.lo>>)

encodeField_float32(Buffer, x) == encodeField_uint32(Buffer, x)

encodeField_float64(Buffer, x) == encodeField_uint64(Buffer, x)

(***************************************************************************)
(* Standard-type field decoders (calib.h 127-171).  Each returns the value *)
(* and the advanced iterator.                                              *)
(***************************************************************************)
decodeField_uint8(data, Iter) == [val |-> ByteAt(data, Iter), Iter |-> Iter + 1]

decodeField_uint16(data, Iter) ==
    [val |-> ByteAt(data, Iter) * 256 + ByteAt(data, Iter + 1), Iter |-> Iter + 2]

decodeField_uint32(data, Iter) ==
    [val |-> U32(ByteAt(data, Iter) * 256 + ByteAt(data, Iter + 1),
                 ByteAt(data, Iter + 2) * 256 + ByteAt(data, Iter + 3)),
     Iter |-> Iter + 4]

decodeField_uint64(data, Iter) ==
    [val |-> <<ByteAt(data, Iter) * 256 + ByteAt(data, Iter + 1),
               ByteAt(data, Iter + 2) * 256 + ByteAt(data, Iter + 3),
               ByteAt(data, Iter + 4) * 256 + ByteAt(data, Iter + 5),
               ByteAt(data, Iter + 6) * 256 + ByteAt(data, Iter + 7)>>,
     Iter |-> Iter + 8]

\* decodeField_int8 without the cast to int8_t of line 160
decodeField_int8_NoCast(data, Iter) == decodeField_uint8(data, Iter)

\* the signed decoders: the cast to the signed type of the same width
\* reads the bit pattern as two's complement
decodeField_int8(data, Iter) ==
    LET b == ByteAt(data, Iter)
    IN  [val |-> IF b = OutOfBounds THEN OutOfBounds ELSE IF b >= 128 THEN b - 256 ELSE b,
         Iter |-> Iter + 1]

decodeField_int16(data, Iter) ==
    LET u == decodeField_uint16(data, Iter)
    IN  [val |-> IF u.val >= 32768 THEN u.val - 65536 ELSE u.val, Iter |-> u.Iter]

decodeField_int32(data, Iter) ==
    LET u == decodeField_uint32(data, Iter)
    IN  [val |-> (IF u.val.hi >= 32768 THEN u.val.hi - 65536 ELSE u.val.hi) * 65536
                     + u.val.lo,
         Iter |-> u.Iter]

decodeField_int64(data, Iter) ==
    LET u == decodeField_uint64(data, Iter)
    IN  [val |-> [hi |-> (IF u.val[1] >= 32768 THEN u.val[1] - 65536 ELSE u.val[1]) * 65536
                             + u.val[2],
                  lo |-> U32(u.val[3], u.val[4])],
         Iter |-> u.Iter]

decodeField_float32(data, Iter) == decodeField_uint32(data, Iter)

decodeField_float64(data, Iter) == decodeField_uint64(data, Iter)

(***************************************************************************)
(* Packet: header, checksum (calib.h 317-368)                              *)
(***************************************************************************)
\* m_data.size() >= (size_t) size   /   size_t(size) == m_data.size()
\* m_data.size() > m_size: the comparison of calib.h 272 made strict
SizeExceeded(n, size) == size.hi = 0 /\ n > size.lo

SizeReached(n, size) ==
    LET nh == n \div 65536
        nl == n % 65536
    IN  nh > size.hi \/ (nh = size.hi /\ nl >= size.lo)

SizeEquals(n, size) == size.hi = n \div 65536 /\ size.lo = n % 65536

AddHeader(data, Size, PID) ==
    encodeField_uint8(encodeField_uint32(encodeField_uint16(data, 55975), Size), PID)

\* what the loop of AddHash and CheckHash (hashA += byte; hashB += hashA, in
\* uint8_t arithmetic) adds to hashA and hashB over the bytes lo..hi of data.
\* The loop over a range is the loop over its two halves: the left half's
\* hashA is added to hashB once for every byte of the right half.
RECURSIVE HashOfRange(_, _, _)
HashOfRange(data, lo, hi) ==
    IF lo > hi THEN [A |-> 0, B |-> 0]
    ELSE IF lo = hi THEN [A |-> data[lo] % 256, B |-> data[lo] % 256]
    ELSE LET mid == (lo + hi) \div 2
             l == HashOfRange(data, lo, mid)
             r == HashOfRange(data, mid + 1, hi)
         IN  [A |-> (l.A + r.A) % 256,
              B |-> (l.B + (hi - mid) * l.A + r.B) % 256]

\* the loop without hashB += hashA: both bytes the plain sum
HashOfSingle(data, n) ==
    [A |-> HashOfRange(data, 1, n).A, B |-> HashOfRange(data, 1, n).A]

\* hashA and hashB after the first n bytes of data
HashOf(data, n) == HashOfRange(data, 1, n)

AddHash(data) ==
    LET h == HashOf(data, Len(data))
    IN  encodeField_uint8(encodeField_uint8(data, h.A), h.B)

GetPID(data) ==
    IF Len(data) < 7 THEN [ret |-> FALSE]
    ELSE [ret |-> TRUE, PID |-> decodeField_uint8(data, 6).val]

\* CheckHash with the second sum alone compared at line 359
CheckHash_SumB(data) ==
    IF Len(data) < 9 THEN FALSE
    ELSE LET size == decodeField_uint32(data, 2).val
         IN  IF ~SizeEquals(Len(data), size) THEN FALSE
             ELSE HashOf(data, Len(data) - 2).B = data[Len(data)]

\* CheckHash without the size test of lines 350-352
CheckHash_AnySize(data) ==
    IF Len(data) < 9 THEN FALSE
    ELSE LET h == HashOf(data, Len(data) - 2)
         IN  h.A = data[Len(data) - 1] /\ h.B = data[Len(data)]

CheckHash(data) ==
    IF Len(data) < 9 THEN FALSE
    ELSE LET size == decodeField_uint32(data, 2).val
         IN  IF ~SizeEquals(Len(data), size) THEN FALSE
             ELSE LET h == HashOf(data, Len(data) - 2)
                  IN  h.A = data[Len(data) - 1] /\ h.B = data[Len(data)]

\* CheckHashSizeAndPID without lines 364-365: the PID alone
CheckPIDOnly(data, PID) == decodeField_uint8(data, 6).val = PID

\* the offsets of m_data CheckHash dereferences (calib.h 349-359)
CheckHash_Reads(data) ==
    IF Len(data) < 9 THEN {}
    ELSE IF ~SizeEquals(Len(data), decodeField_uint32(data, 2).val) THEN 2..5
    ELSE 0..(Len(data) - 1)

\* the offsets of m_data CheckHashSizeAndPID dereferences (calib.h 364-367)
CheckHashSizeAndPID_Reads(data) ==
    IF ~CheckHash(data) THEN CheckHash_Reads(data)
    ELSE CheckHash_Reads(data) \cup {6}

CheckHashSizeAndPID(data, PID) ==
    IF ~CheckHash(data) THEN FALSE
    ELSE decodeField_uint8(data, 6).val = PID

(***************************************************************************)
(* Floating point.  A float or double is its bit pattern; the arithmetic   *)
(* of the catalog (radians <-> degrees, the yaw wrap) is IEEE-754          *)
(* arithmetic, tabulated here for the values the model's messages carry    *)
(* (each entry is what the expression of the cited line evaluates to).     *)
(***************************************************************************)
F_0   == U32(0, 0)          \* 0.0f
F_1   == U32(16256, 0)      \* 1.0f
F_m1  == U32(49024, 0)      \* -1.0f
F_2   == U32(16384, 0)      \* 2.0f
F_4   == U32(16512, 0)      \* 4.0f
F_10  == U32(16672, 0)      \* 10.0f
F_0_2 == U32(15948, 52429)  \* 0.2f
F_NaN == U32(32704, 0)      \* std::nanf("")
F_Pi   == U32(16457, 4059)   \* 3.14159274f, the float nearest to pi
F_1e37 == U32(31984, 48578)  \* 1e37f

D_0   == <<0, 0, 0, 0>>      \* 0.0
D_1   == <<16368, 0, 0, 0>>  \* 1.0
D_m1  == <<49136, 0, 0, 0>>  \* -1.0
D_0_5 == <<16352, 0, 0, 0>>  \* 0.5
D_NaN == <<32760, 0, 0, 0>>  \* std::nan("")

NotTabulated == "NotTabulated"

IsNaN32(x) == (x.hi \div 128) % 256 = 255 /\ (x.hi % 128 # 0 \/ x.lo # 0)

IsZero32(x) == x.hi % 32768 = 0 /\ x.lo = 0

\* a == b on float
FloatEq32(a, b) ==
    /\ ~IsNaN32(a)
    /\ ~IsNaN32(b)
    /\ (a = b \/ (IsZero32(a) /\ IsZero32(b)))

IsNaN64(x) ==
    (x[1] \div 16) % 2048 = 2047 /\ (x[1] % 16 # 0 \/ x[2] # 0 \/ x[3] # 0 \/ x[4] # 0)

IsZero64(x) == x[1] % 32768 = 0 /\ x[2] = 0 /\ x[3] = 0 /\ x[4] = 0

\* a == b on double
FloatEq64(a, b) ==
    /\ ~IsNaN64(a)
    /\ ~IsNaN64(b)
    /\ (a = b \/ (IsZero64(a) /\ IsZero64(b)))

\* x*180.0/PI on a double (calib.h 717-718)
DegOfRad64(x) ==
    CASE x = D_0   -> D_0
      [] x = D_1   -> <<16460, 42460, 6755, 49664>>
      [] x = D_m1  -> <<49228, 42460, 6755, 49664>>
      [] x = D_0_5 -> <<16444, 42460, 6755, 49664>>
      [] x = D_NaN -> D_NaN
      [] OTHER     -> NotTabulated

\* x*PI/180.0 on a double (calib.h 748-749)
RadOfDeg64(x) ==
    CASE x = D_0   -> D_0
      [] x = <<16460, 42460, 6755, 49664>> -> D_1
      [] x = <<49228, 42460, 6755, 49664>> -> D_m1
      [] x = <<16444, 42460, 6755, 49664>> -> D_0_5
      [] x = D_NaN -> D_NaN
      [] OTHER     -> NotTabulated

\* (float)(x*180.0/PI) for a float x (calib.h 723)
DegOfRad32(x) ==
    CASE x = F_0   -> F_0
      [] x = F_1   -> U32(16997, 12001)
      [] x = F_m1  -> U32(49765, 12001)
      [] x = F_4   -> U32(17253, 12001)
      [] x = F_0_2 -> U32(16695, 22708)
      [] x = F_10  -> U32(17423, 15693)
      [] x = F_Pi   -> U32(17204, 0)         \* 180.0f
      [] x = F_1e37 -> U32(32640, 0)         \* the double 5.7e38 is above FLT_MAX: +inf
      [] x = F_NaN -> F_NaN
      [] OTHER     -> NotTabulated

\* (float)(x*PI/180.0) for a float x (calib.h 754, 801)
RadOfDeg32(x) ==
    CASE x = F_0   -> F_0
      [] x = U32(16997, 12001) -> F_1
      [] x = U32(49765, 12001) -> F_m1
      [] x = U32(49765, 12000) -> U32(49023, 65535)   \* -0.99999994f
      [] x = U32(17253, 12001) -> F_4
      [] x = U32(49922, 53535) -> U32(49170, 8117)    \* -2.28318524f
      [] x = U32(16695, 22708) -> F_0_2
      [] x = U32(17423, 15693) -> U32(16672, 1)       \* 10.000001f
      [] x = U32(17204, 0)     -> F_Pi
      [] x = U32(65472, 0)     -> U32(65472, 0)       \* NaN stays the NaN it is
      [] x = F_NaN -> F_NaN
      [] OTHER     -> NotTabulated

\* yaw_deg of Packet_VirtualStickCommand::Serialize: Yaw*180.0/PI as a
\* float, fmod 360, +360 when negative, -360 when above 180 (calib.h 778-783)
WrapYawDeg32(Yaw) ==
    CASE Yaw = F_0   -> F_0
      [] Yaw = F_1   -> U32(16997, 12001)   \*   57.2957802f
      [] Yaw = F_m1  -> U32(49765, 12000)   \*  -57.2957764f
      [] Yaw = F_4   -> U32(49922, 53535)   \* -130.816879f
      [] Yaw = F_0_2 -> U32(16695, 22708)   \*   11.459156f
      [] Yaw = F_Pi   -> U32(17204, 0)      \*  180.0f
      [] Yaw = F_1e37 -> U32(65472, 0)      \*  fmod(+inf, 360.0) = NaN (0xFFC00000)
      [] Yaw = F_NaN -> F_NaN
      [] OTHER       -> NotTabulated

(***************************************************************************)
(* Compound-type field encoders (calib.h 86-121)                           *)
(***************************************************************************)
encodeField_String(Buffer, x) == encodeField_uint32(Buffer, U32OfNat(Len(x))) \o x

\* cv::Mat: [rows, cols, type, pix], pix the row-major pixels, each the
\* in-memory channels <<(0), (1), (2)>> = <<Blue, Green, Red>>.
Mat(rows, cols, type, pix) == [rows |-> rows, cols |-> cols, type |-> type, pix |-> pix]

\* cv::Mat(): an empty matrix, whose type() is 0 = CV_8UC1
DefaultMat == Mat(0, 0, "CV_8UC1", <<>>)

RECURSIVE encodePixels(_, _, _)
encodePixels(Buffer, pix, n) ==
    IF n > Len(pix) THEN Buffer
    ELSE encodePixels(
             encodeField_uint8(
                 encodeField_uint8(encodeField_uint8(Buffer, pix[n][3]), pix[n][2]),
                 pix[n][1]),
             pix, n + 1)

encodeField_Image(Buffer, x) ==
    IF x.type # "CV_8UC3" THEN Buffer
    ELSE encodePixels(
             encodeField_uint16(encodeField_uint16(Buffer, x.rows % 65536), x.cols % 65536),
             x.pix, 1)

\* cv::imencode(".jpg", x, buff, {IMWRITE_JPEG_QUALITY, 95}): the JPEG
\* stream of x.  OpenCV's encoder is outside this repository; the model
\* keeps of it that the stream opens with SOI, closes with EOI and carries
\* the frame's dimensions.
imencode(x) == <<255, 216, x.rows % 256, x.cols % 256, 255, 217>>

encodeField_CompressedImage(Buffer, x) ==
    IF x.type # "CV_8UC3" THEN Buffer
    ELSE Buffer \o imencode(x)

(***************************************************************************)
(* Message catalog: Serialize (calib.h 388-791).  Each operator is the     *)
(* m_data of TargetPacket after the call: Clear, AddHeader, the fields in  *)
(* declared order, AddHash.                                                *)
(***************************************************************************)
Packet_CoreTelemetry_Serialize(m) ==
    LET b0  == AddHeader(<<>>, U32OfNat(9 + 69), 0)
        b1  == encodeField_uint8(b0, m.IsFlying)
        b2  == encodeField_float64(b1, m.Latitude)
        b3  == encodeField_float64(b2, m.Longitude)
        b4  == encodeField_float64(b3, m.Altitude)
        b5  == encodeField_float64(b4, m.HAG)
        b6  == encodeField_float32(b5, m.V_N)
        b7  == encodeField_float32(b6, m.V_E)
        b8  == encodeField_float32(b7, m.V_D)
        b9  == encodeField_float64(b8, m.Yaw)
        b10 == encodeField_float64(b9, m.Pitch)
        b11 == encodeField_float64(b10, m.Roll)
    IN  AddHash(b11)

Packet_ExtendedTelemetry_Serialize(m) ==
    LET b0  == AddHeader(<<>>, U32OfNat(9 + 12 + 4 + Len(m.DroneSerial)), 1)
        b1  == encodeField_uint16(b0, m.GNSSSatCount)
        b2  == encodeField_uint8(b1, m.GNSSSignal)
        b3  == encodeField_uint8(b2, m.MaxHeight)
        b4  == encodeField_uint8(b3, m.MaxDist)
        b5  == encodeField_uint8(b4, m.BatLevel)
        b6  == encodeField_uint8(b5, m.BatWarning)
        b7  == encodeField_uint8(b6, m.WindLevel)
        b8  == encodeField_uint8(b7, m.DJICam)
        b9  == encodeField_uint8(b8, m.FlightMode)
        b10 == encodeField_uint16(b9, m.MissionID)
        b11 == encodeField_String(b10, m.DroneSerial)
    IN  AddHash(b11)

Packet_Image_Serialize(m) ==
    LET b0 == AddHeader(<<>>, U32OfNat(9 + 4 + 4 + m.Frame.rows * m.Frame.cols * 3), 2)
        b1 == encodeField_float32(b0, m.TargetFPS)
        b2 == encodeField_Image(b1, m.Frame)
    IN  AddHash(b2)

\* Serialize without the patch of lines 556-560: the size left 0
Packet_CompressedImage_Serialize_Unpatched(m) ==
    LET b0 == AddHeader(<<>>, U32OfNat(0), 5)
        b1 == encodeField_float32(b0, m.TargetFPS)
        b2 == encodeField_CompressedImage(b1, m.Frame)
    IN  AddHash(b2)

Packet_CompressedImage_Serialize(m) ==
    LET b0 == AddHeader(<<>>, U32OfNat(0), 5)
        b1 == encodeField_float32(b0, m.TargetFPS)
        b2 == encodeField_CompressedImage(b1, m.Frame)
        packetSize == U32OfNat(Len(b2) + 2)
        b3 == [b2 EXCEPT ![3] = (packetSize.hi \div 256) % 256,
                         ![4] = packetSize.hi % 256,
                         ![5] = (packetSize.lo \div 256) % 256,
                         ![6] = packetSize.lo % 256]
    IN  AddHash(b3)

Packet_Acknowledgment_Serialize(m) ==
    LET b0 == AddHeader(<<>>, U32OfNat(9 + 2), 3)
        b1 == encodeField_uint8(b0, m.Positive)
        b2 == encodeField_uint8(b1, m.SourcePID)
    IN  AddHash(b2)

Packet_MessageString_Serialize(m) ==
    LET b0 == AddHeader(<<>>, U32OfNat(9 + 1 + 4 + Len(m.Message)), 4)
        b1 == encodeField_uint8(b0, m.Type)
        b2 == encodeField_String(b1, m.Message)
    IN  AddHash(b2)

Packet_EmergencyCommand_Serialize(m) ==
    LET b0 == AddHeader(<<>>, U32OfNat(9 + 1), 255)
        b1 == encodeField_uint8(b0, m.Action)
    IN  AddHash(b1)

Packet_CameraControl_Serialize(m) ==
    LET b0 == AddHeader(<<>>, U32OfNat(9 + 5), 254)
        b1 == encodeField_uint8(b0, m.Action)
        b2 == encodeField_float32(b1, m.TargetFPS)
    IN  AddHash(b2)

\* the loop over Waypoints of Packet_ExecuteWaypointMission::Serialize
RECURSIVE encodeWaypoints(_, _, _)
encodeWaypoints(Buffer, Waypoints, n) ==
    IF n > Len(Waypoints) THEN Buffer
    ELSE LET waypoint == Waypoints[n]
             b1 == encodeField_float64(Buffer, DegOfRad64(waypoint.Latitude))
             b2 == encodeField_float64(b1, DegOfRad64(waypoint.Longitude))
             b3 == encodeField_float64(b2, waypoint.RelAltitude)
             b4 == encodeField_float32(b3, waypoint.CornerRadius)
             b5 == encodeField_float32(b4, waypoint.Speed)
             b6 == encodeField_float32(b5, waypoint.LoiterTime)
             b7 == encodeField_float32(b6, DegOfRad32(waypoint.GimbalPitch))
         IN  encodeWaypoints(b7, Waypoints, n + 1)

Packet_ExecuteWaypointMission_Serialize(m) ==
    LET b0 == AddHeader(<<>>, U32OfNat(9 + 2 + 40 * Len(m.Waypoints)), 253)
        b1 == encodeField_uint8(b0, m.LandAtEnd)
        b2 == encodeField_uint8(b1, m.CurvedFlight)
        b3 == encodeWaypoints(b2, m.Waypoints, 1)
    IN  AddHash(b3)

Packet_VirtualStickCommand_Serialize(m) ==
    LET b0 == AddHeader(<<>>, U32OfNat(9 + 21), 252)
        b1 == encodeField_uint8(b0, m.Mode)
        yaw_deg == WrapYawDeg32(m.Yaw)
        b2 == encodeField_float32(b1, yaw_deg)
        b3 == encodeField_float32(b2, m.V_x)
        b4 == encodeField_float32(b3, m.V_y)
        b5 == encodeField_float32(b4, m.HAG)
        b6 == encodeField_float32(b5, m.timeout)
    IN  AddHash(b6)

\* Serialize of the variant m belongs to
Serialize(m) ==
    CASE m.variant = "CoreTelemetry"          -> Packet_CoreTelemetry_Serialize(m)
      [] m.variant = "ExtendedTelemetry"      -> Packet_ExtendedTelemetry_Serialize(m)
      [] m.variant = "Image"                  -> Packet_Image_Serialize(m)
      [] m.variant = "CompressedImage"        -> Packet_CompressedImage_Serialize(m)
      [] m.variant = "Acknowledgment"         -> Packet_Acknowledgment_Serialize(m)
      [] m.variant = "MessageString"          -> Packet_MessageString_Serialize(m)
      [] m.variant = "EmergencyCommand"       -> Packet_EmergencyCommand_Serialize(m)
      [] m.variant = "CameraControl"          -> Packet_CameraControl_Serialize(m)
      [] m.variant = "ExecuteWaypointMission" -> Packet_ExecuteWaypointMission_Serialize(m)
      [] m.variant = "VirtualStickCommand"    -> Packet_VirtualStickCommand_Serialize(m)

\* the type identifier each variant's Serialize writes and Deserialize demands
PIDOf(variant) ==
    CASE variant = "CoreTelemetry"          -> 0
      [] variant = "ExtendedTelemetry"      -> 1
      [] variant = "Image"                  -> 2
      [] variant = "Acknowledgment"         -> 3
      [] variant = "MessageString"          -> 4
      [] variant = "CompressedImage"        -> 5
      [] variant = "VirtualStickCommand"    -> 252
      [] variant = "ExecuteWaypointMission" -> 253
      [] variant = "CameraControl"          -> 254
      [] variant = "EmergencyCommand"       -> 255

(***************************************************************************)
(* Compound-type field decoders (calib.h 181-251).  Each returns the       *)
(* value, the advanced iterator and the budget left in the reference       *)
(* argument MaxBytes (an unsigned int, so a uint32_t).                     *)
(***************************************************************************)
\* value of a uint32_t the model can count with (below 2^31)
U32ToNat(x) == x.hi * 65536 + x.lo

\* a * b on uint32_t for a, b below 2^16, wrapping modulo 2^32
U32MulU16(a, b) ==
    LET p1 == (a \div 256) * b
        p0 == (a % 256) * b
    IN  U32Add(U32((p1 \div 256) % 65536, (p1 % 256) * 256), U32OfNat(p0))

\* the bytes Iter, Iter+1, ... read by *Iter++ size times: when they reach
\* past the end of data, the bytes up to the end and then OutOfBounds
ReadBytes(data, Iter, size) ==
    IF size.hi # 0 \/ Iter + size.lo > Len(data)
    THEN SubSeq(data, Iter + 1, Len(data)) \o <<OutOfBounds>>
    ELSE SubSeq(data, Iter + 1, Iter + size.lo)

\* how many bytes decodeField_String dereferences, counted from the cursor of
\* entry: none, the 4 of the length, or the 4 and the size bytes of the loop
\* of lines 199-200.  A count, not a uint32_t: [hi, lo] with hi up to 65536.
decodeField_String_Reads(data, Iter, MaxBytes) ==
    IF U32Less(MaxBytes, U32OfNat(4)) THEN U32(0, 0)
    ELSE LET size == decodeField_uint32(data, Iter).val
         IN  IF U32Less(MaxBytes, U32Add(size, U32OfNat(4))) THEN U32(0, 4)
             ELSE U32(size.hi + (size.lo + 4) \div 65536, (size.lo + 4) % 65536)

\* decodeField_String without the MaxBytes -= bytesForObject of line 201
decodeField_String_BudgetKept(data, Iter, MaxBytes) ==
    IF U32Less(MaxBytes, U32OfNat(4))
    THEN [val |-> <<>>, Iter |-> Iter + U32ToNat(MaxBytes), MaxBytes |-> U32OfNat(0)]
    ELSE LET d == decodeField_uint32(data, Iter)
             size == d.val
             bytesForObject == U32Add(size, U32OfNat(4))
         IN  IF U32Less(MaxBytes, bytesForObject)
             THEN [val |-> <<>>, Iter |-> d.Iter + U32ToNat(MaxBytes),
                   MaxBytes |-> U32OfNat(0)]
             ELSE [val |-> ReadBytes(data, d.Iter, size),
                   Iter |-> IF size.hi = 0 THEN d.Iter + size.lo ELSE OutOfBounds,
                   MaxBytes |-> MaxBytes]

decodeField_String(data, Iter, MaxBytes) ==
    IF U32Less(MaxBytes, U32OfNat(4))
    THEN [val |-> <<>>, Iter |-> Iter + U32ToNat(MaxBytes), MaxBytes |-> U32OfNat(0)]
    ELSE LET d == decodeField_uint32(data, Iter)
             size == d.val
             bytesForObject == U32Add(size, U32OfNat(4))
         IN  IF U32Less(MaxBytes, bytesForObject)
             THEN [val |-> <<>>, Iter |-> d.Iter + U32ToNat(MaxBytes),
                   MaxBytes |-> U32OfNat(0)]
             ELSE [val |-> ReadBytes(data, d.Iter, size),
                   Iter |-> IF size.hi = 0 THEN d.Iter + size.lo ELSE OutOfBounds,
                   MaxBytes |-> U32Sub(MaxBytes, bytesForObject)]

\* decodePixels storing the bytes into channels (0), (1), (2) as they come
RECURSIVE decodePixels_WireOrder(_, _, _, _)
decodePixels_WireOrder(data, Iter, n, count) ==
    IF n > count THEN <<>>
    ELSE LET R == decodeField_uint8(data, Iter)
             G == decodeField_uint8(data, R.Iter)
             B == decodeField_uint8(data, G.Iter)
         IN  <<(<<R.val, G.val, B.val>>)>>
             \o decodePixels_WireOrder(data, B.Iter, n + 1, count)

\* pixels n .. count of the image, read from Iter on: wire order R, G, B
\* stored into channels (2), (1), (0)
RECURSIVE decodePixels(_, _, _, _)
decodePixels(data, Iter, n, count) ==
    IF n > count THEN <<>>
    ELSE LET R == decodeField_uint8(data, Iter)
             G == decodeField_uint8(data, R.Iter)
             B == decodeField_uint8(data, G.Iter)
         IN  <<(<<B.val, G.val, R.val>>)>> \o decodePixels(data, B.Iter, n + 1, count)

\* rows*cols*3 + 4 is 2^32 or more: the uint32_t totalBytes of line 218 is
\* not the size of the image.  1431655764 is (2^32 - 4) / 3.
SizeWraps(rows, cols) ==
    rows > 0 /\ cols >= (1431655764 + rows - 1) \div rows

\* the offset of a cursor that has been advanced by 2^32 - 4 bytes or more:
\* beyond the end of every vector
FarBeyond == 2147483647

\* the pixels of an image whose bytes were read beyond the end of the vector
PixelsBeyond == <<(<<OutOfBounds, OutOfBounds, OutOfBounds>>)>>

\* When totalBytes has wrapped and passes the test of line 219, the loop of
\* lines 227-238 reads rows*cols*3 bytes, more than 2^32 - 4, from the
\* cursor on: the image returned is rows x cols with pixels from beyond the
\* vector, and the cursor is beyond it.
decodeField_Image(data, Iter, MaxBytes) ==
    IF U32Less(MaxBytes, U32OfNat(4))
    THEN [val |-> Mat(0, 0, "CV_8UC3", <<>>), Iter |-> Iter + U32ToNat(MaxBytes),
          MaxBytes |-> U32OfNat(0)]
    ELSE LET rows == decodeField_uint16(data, Iter)
             cols == decodeField_uint16(data, rows.Iter)
             rc == U32MulU16(rows.val, cols.val)
             totalBytes == U32Add(U32Add(U32Add(rc, rc), rc), U32OfNat(4))
         IN  IF U32Less(MaxBytes, totalBytes)
             THEN [val |-> Mat(0, 0, "CV_8UC3", <<>>),
                   Iter |-> cols.Iter + U32ToNat(MaxBytes), MaxBytes |-> U32OfNat(0)]
             ELSE IF SizeWraps(rows.val, cols.val)
             THEN [val |-> Mat(rows.val, cols.val, "CV_8UC3", PixelsBeyond),
                   Iter |-> FarBeyond, MaxBytes |-> MaxBytes]
             ELSE [val |-> Mat(rows.val, cols.val, "CV_8UC3",
                               decodePixels(data, cols.Iter, 1, rows.val * cols.val)),
                   Iter |-> cols.Iter + 3 * rows.val * cols.val,
                   MaxBytes |-> MaxBytes]

\* cv::imdecode(buffer, IMREAD_COLOR): the frame of a JPEG stream, an empty
\* matrix when the stream does not decode.  The pixels of the decoded frame
\* are the decoder's (lossy); the model keeps the dimensions.
imdecode(buffer) ==
    IF Len(buffer) = 6 /\ buffer[1] = 255 /\ buffer[2] = 216
                       /\ buffer[5] = 255 /\ buffer[6] = 217
    THEN Mat(buffer[3], buffer[4], "CV_8UC3",
             [i \in 1..(buffer[3] * buffer[4]) |-> <<0, 0, 0>>])
    ELSE DefaultMat

decodeField_CompressedImage(data, Iter, NumBytes) ==
    LET image == imdecode(SubSeq(data, Iter + 1, Iter + NumBytes))
    IN  IF image.type # "CV_8UC3" THEN DefaultMat ELSE image

(***************************************************************************)
(* Message catalog: Deserialize (calib.h 405-807).  target is the message  *)
(* object the method is called on, data the m_data of SourcePacket; the    *)
(* result is the return value and the object as the call leaves it.        *)
(***************************************************************************)
Packet_CoreTelemetry_Deserialize(target, data) ==
    IF ~CheckHashSizeAndPID(data, 0) THEN [ret |-> FALSE, msg |-> target]
    ELSE IF Len(data) # 9 + 69 THEN [ret |-> FALSE, msg |-> target]
    ELSE LET f1  == decodeField_uint8(data, 7)
             f2  == decodeField_float64(data, f1.Iter)
             f3  == decodeField_float64(data, f2.Iter)
             f4  == decodeField_float64(data, f3.Iter)
             f5  == decodeField_float64(data, f4.Iter)
             f6  == decodeField_float32(data, f5.Iter)
             f7  == decodeField_float32(data, f6.Iter)
             f8  == decodeField_float32(data, f7.Iter)
             f9  == decodeField_float64(data, f8.Iter)
             f10 == decodeField_float64(data, f9.Iter)
             f11 == decodeField_float64(data, f10.Iter)
         IN  [ret |-> TRUE,
              msg |-> [target EXCEPT !.IsFlying = f1.val, !.Latitude = f2.val,
                          !.Longitude = f3.val, !.Altitude = f4.val, !.HAG = f5.val,
                          !.V_N = f6.val, !.V_E = f7.val, !.V_D = f8.val,
                          !.Yaw = f9.val, !.Pitch = f10.val, !.Roll = f11.val]]

Packet_ExtendedTelemetry_Deserialize(target, data) ==
    IF ~CheckHashSizeAndPID(data, 1) THEN [ret |-> FALSE, msg |-> target]
    ELSE IF Len(data) < 9 + 16 THEN [ret |-> FALSE, msg |-> target]
    ELSE LET f1  == decodeField_uint16(data, 7)
             f2  == decodeField_uint8(data, f1.Iter)
             f3  == decodeField_uint8(data, f2.Iter)
             f4  == decodeField_uint8(data, f3.Iter)
             f5  == decodeField_uint8(data, f4.Iter)
             f6  == decodeField_uint8(data, f5.Iter)
             f7  == decodeField_uint8(data, f6.Iter)
             f8  == decodeField_uint8(data, f7.Iter)
             f9  == decodeField_uint8(data, f8.Iter)
             f10 == decodeField_uint16(data, f9.Iter)
             MaxBytesForStr == U32OfNat(Len(data) - 9 - 12)
             f11 == decodeField_String(data, f10.Iter, MaxBytesForStr)
         IN  [ret |-> TRUE,
              msg |-> [target EXCEPT !.GNSSSatCount = f1.val, !.GNSSSignal = f2.val,
                          !.MaxHeight = f3.val, !.MaxDist = f4.val, !.BatLevel = f5.val,
                          !.BatWarning = f6.val, !.WindLevel = f7.val, !.DJICam = f8.val,
                          !.FlightMode = f9.val, !.MissionID = f10.val,
                          !.DroneSerial = f11.val]]

Packet_Image_Deserialize(target, data) ==
    IF ~CheckHashSizeAndPID(data, 2) THEN [ret |-> FALSE, msg |-> target]
    ELSE IF Len(data) < 9 + 8 THEN [ret |-> FALSE, msg |-> target]
    ELSE LET f1 == decodeField_float32(data, 7)
             MaxBytesForImage == U32OfNat(Len(data) - 9 - 4)
             f2 == decodeField_Image(data, f1.Iter, MaxBytesForImage)
         IN  [ret |-> TRUE,
              msg |-> [target EXCEPT !.TargetFPS = f1.val, !.Frame = f2.val]]

Packet_CompressedImage_Deserialize(target, data) ==
    IF ~CheckHashSizeAndPID(data, 5) THEN [ret |-> FALSE, msg |-> target]
    ELSE IF Len(data) < 9 + 4 THEN [ret |-> FALSE, msg |-> target]
    ELSE LET f1 == decodeField_float32(data, 7)
             JPEGNumBytes == Len(data) - 9 - 4
             Frame == decodeField_CompressedImage(data, f1.Iter, JPEGNumBytes)
         IN  [ret |-> TRUE,
              msg |-> [target EXCEPT !.TargetFPS = f1.val, !.Frame = Frame]]

Packet_Acknowledgment_Deserialize(target, data) ==
    IF ~CheckHashSizeAndPID(data, 3) THEN [ret |-> FALSE, msg |-> target]
    ELSE IF Len(data) # 9 + 2 THEN [ret |-> FALSE, msg |-> target]
    ELSE LET f1 == decodeField_uint8(data, 7)
             f2 == decodeField_uint8(data, f1.Iter)
         IN  [ret |-> TRUE,
              msg |-> [target EXCEPT !.Positive = f1.val, !.SourcePID = f2.val]]

Packet_MessageString_Deserialize(target, data) ==
    IF ~CheckHashSizeAndPID(data, 4) THEN [ret |-> FALSE, msg |-> target]
    ELSE IF Len(data) < 9 + 5 THEN [ret |-> FALSE, msg |-> target]
    ELSE LET f1 == decodeField_uint8(data, 7)
             MaxBytesForStr == U32OfNat(Len(data) - 9 - 1)
             f2 == decodeField_String(data, f1.Iter, MaxBytesForStr)
         IN  [ret |-> TRUE,
              msg |-> [target EXCEPT !.Type = f1.val, !.Message = f2.val]]

Packet_EmergencyCommand_Deserialize(target, data) ==
    IF ~CheckHashSizeAndPID(data, 255) THEN [ret |-> FALSE, msg |-> target]
    ELSE IF Len(data) # 9 + 1 THEN [ret |-> FALSE, msg |-> target]
    ELSE LET f1 == decodeField_uint8(data, 7)
         IN  [ret |-> TRUE, msg |-> [target EXCEPT !.Action = f1.val]]

\* Deserialize with CheckHash in place of CheckHashSizeAndPID(254)
Packet_CameraControl_Deserialize_AnyPID(target, data) ==
    IF ~CheckHash(data) THEN [ret |-> FALSE, msg |-> target]
    ELSE IF Len(data) # 9 + 5 THEN [ret |-> FALSE, msg |-> target]
    ELSE LET f1 == decodeField_uint8(data, 7)
             f2 == decodeField_float32(data, f1.Iter)
         IN  [ret |-> TRUE,
              msg |-> [target EXCEPT !.Action = f1.val, !.TargetFPS = f2.val]]

Packet_CameraControl_Deserialize(target, data) ==
    IF ~CheckHashSizeAndPID(data, 254) THEN [ret |-> FALSE, msg |-> target]
    ELSE IF Len(data) # 9 + 5 THEN [ret |-> FALSE, msg |-> target]
    ELSE LET f1 == decodeField_uint8(data, 7)
             f2 == decodeField_float32(data, f1.Iter)
         IN  [ret |-> TRUE,
              msg |-> [target EXCEPT !.Action = f1.val, !.TargetFPS = f2.val]]

\* the loop over numWaypoints of Packet_ExecuteWaypointMission::Deserialize:
\* waypoints n .. numWaypoints, read from Iter on
RECURSIVE decodeWaypoints(_, _, _, _)
decodeWaypoints(data, Iter, n, numWaypoints) ==
    IF n > numWaypoints THEN <<>>
    ELSE LET f1 == decodeField_float64(data, Iter)
             f2 == decodeField_float64(data, f1.Iter)
             f3 == decodeField_float64(data, f2.Iter)
             f4 == decodeField_float32(data, f3.Iter)
             f5 == decodeField_float32(data, f4.Iter)
             f6 == decodeField_float32(data, f5.Iter)
             f7 == decodeField_float32(data, f6.Iter)
         IN  <<[Latitude     |-> RadOfDeg64(f1.val),
                Longitude    |-> RadOfDeg64(f2.val),
                RelAltitude  |-> f3.val,
                CornerRadius |-> f4.val,
                Speed        |-> f5.val,
                LoiterTime   |-> f6.val,
                GimbalPitch  |-> RadOfDeg32(f7.val)]>>
             \o decodeWaypoints(data, f7.Iter, n + 1, numWaypoints)

\* Deserialize without the test of waypointBytes % 40
Packet_ExecuteWaypointMission_Deserialize_AnyLength(target, data) ==
    IF ~CheckHashSizeAndPID(data, 253) THEN [ret |-> FALSE, msg |-> target]
    ELSE IF Len(data) < 9 + 2 + 40 THEN [ret |-> FALSE, msg |-> target]
    ELSE LET f1 == decodeField_uint8(data, 7)
             f2 == decodeField_uint8(data, f1.Iter)
             numWaypoints == (Len(data) - 9 - 2) \div 40
         IN  [ret |-> TRUE,
              msg |-> [target EXCEPT !.LandAtEnd = f1.val, !.CurvedFlight = f2.val,
                          !.Waypoints = decodeWaypoints(data, f2.Iter, 1, numWaypoints)]]

Packet_ExecuteWaypointMission_Deserialize(target, data) ==
    IF ~CheckHashSizeAndPID(data, 253) THEN [ret |-> FALSE, msg |-> target]
    ELSE IF Len(data) < 9 + 2 + 40 THEN [ret |-> FALSE, msg |-> target]
    ELSE LET f1 == decodeField_uint8(data, 7)
             f2 == decodeField_uint8(data, f1.Iter)
             waypointBytes == Len(data) - 9 - 2
             numWaypoints == waypointBytes \div 40
         IN  IF waypointBytes % 40 # 0
             THEN [ret |-> FALSE,
                   msg |-> [target EXCEPT !.LandAtEnd = f1.val, !.CurvedFlight = f2.val,
                               !.Waypoints = <<>>]]
             ELSE [ret |-> TRUE,
                   msg |-> [target EXCEPT !.LandAtEnd = f1.val, !.CurvedFlight = f2.val,
                               !.Waypoints = decodeWaypoints(data, f2.Iter, 1, numWaypoints)]]

Packet_VirtualStickCommand_Deserialize(target, data) ==
    IF ~CheckHashSizeAndPID(data, 252) THEN [ret |-> FALSE, msg |-> target]
    ELSE IF Len(data) # 9 + 21 THEN [ret |-> FALSE, msg |-> target]
    ELSE LET f1 == decodeField_uint8(data, 7)
             f2 == decodeField_float32(data, f1.Iter)
             f3 == decodeField_float32(data, f2.Iter)
             f4 == decodeField_float32(data, f3.Iter)
             f5 == decodeField_float32(data, f4.Iter)
             f6 == decodeField_float32(data, f5.Iter)
         IN  [ret |-> TRUE,
              msg |-> [target EXCEPT !.Mode = f1.val, !.Yaw = RadOfDeg32(f2.val),
                          !.V_x = f3.val, !.V_y = f4.val, !.HAG = f5.val,
                          !.timeout = f6.val]]

\* Deserialize of the variant target belongs to
Deserialize(target, data) ==
    CASE target.variant = "CoreTelemetry"     -> Packet_CoreTelemetry_Deserialize(target, data)
      [] target.variant = "ExtendedTelemetry" -> Packet_ExtendedTelemetry_Deserialize(target, data)
      [] target.variant = "Image"             -> Packet_Image_Deserialize(target, data)
      [] target.variant = "CompressedImage"   -> Packet_CompressedImage_Deserialize(target, data)
      [] target.variant = "Acknowledgment"    -> Packet_Acknowledgment_Deserialize(target, data)
      [] target.variant = "MessageString"     -> Packet_MessageString_Deserialize(target, data)
      [] target.variant = "EmergencyCommand"  -> Packet_EmergencyCommand_Deserialize(target, data)
      [] target.variant = "CameraControl"     -> Packet_CameraControl_Deserialize(target, data)
      [] target.variant = "ExecuteWaypointMission" ->
             Packet_ExecuteWaypointMission_Deserialize(target, data)
      [] target.variant = "VirtualStickCommand" ->
             Packet_VirtualStickCommand_Deserialize(target, data)

(***************************************************************************)
(* operator== of the catalog (calib.h 374-386, 429-441, 487-503, 531-547,  *)
(* 584-587, 613-616, 644-646, 670-673, 699-709, 763-770, 1013-1021)        *)
(***************************************************************************)
Packet_CoreTelemetry_Eq(a, b) ==
    /\ a.IsFlying = b.IsFlying
    /\ FloatEq64(a.Latitude, b.Latitude)
    /\ FloatEq64(a.Longitude, b.Longitude)
    /\ FloatEq64(a.Altitude, b.Altitude)
    /\ FloatEq64(a.HAG, b.HAG)
    /\ FloatEq32(a.V_N, b.V_N)
    /\ FloatEq32(a.V_E, b.V_E)
    /\ FloatEq32(a.V_D, b.V_D)
    /\ FloatEq64(a.Yaw, b.Yaw)
    /\ FloatEq64(a.Pitch, b.Pitch)
    /\ FloatEq64(a.Roll, b.Roll)

Packet_ExtendedTelemetry_Eq(a, b) ==
    /\ a.GNSSSatCount = b.GNSSSatCount
    /\ a.GNSSSignal = b.GNSSSignal
    /\ a.MaxHeight = b.MaxHeight
    /\ a.MaxDist = b.MaxDist
    /\ a.BatLevel = b.BatLevel
    /\ a.BatWarning = b.BatWarning
    /\ a.WindLevel = b.WindLevel
    /\ a.DJICam = b.DJICam
    /\ a.FlightMode = b.FlightMode
    /\ a.MissionID = b.MissionID
    /\ a.DroneSerial = b.DroneSerial

\* operator== of Packet_Image and of Packet_CompressedImage
Packet_Image_Eq(a, b) ==
    IF ~FloatEq32(a.TargetFPS, b.TargetFPS) THEN FALSE
    ELSE IF a.Frame.rows # b.Frame.rows \/ a.Frame.cols # b.Frame.cols THEN FALSE
    ELSE IF a.Frame.type # b.Frame.type THEN FALSE
    ELSE \A i \in 1..(a.Frame.rows * a.Frame.cols) : a.Frame.pix[i] = b.Frame.pix[i]

Packet_Acknowledgment_Eq(a, b) ==
    a.Positive = b.Positive /\ a.SourcePID = b.SourcePID

Packet_MessageString_Eq(a, b) == a.Type = b.Type /\ a.Message = b.Message

Packet_EmergencyCommand_Eq(a, b) == a.Action = b.Action

Packet_CameraControl_Eq(a, b) ==
    a.Action = b.Action /\ FloatEq32(a.TargetFPS, b.TargetFPS)

Waypoint_Eq(a, b) ==
    /\ FloatEq64(a.Latitude, b.Latitude)
    /\ FloatEq64(a.Longitude, b.Longitude)
    /\ FloatEq64(a.RelAltitude, b.RelAltitude)
    /\ FloatEq32(a.CornerRadius, b.CornerRadius)
    /\ FloatEq32(a.Speed, b.Speed)
    /\ FloatEq32(a.LoiterTime, b.LoiterTime)
    /\ FloatEq32(a.GimbalPitch, b.GimbalPitch)

Packet_ExecuteWaypointMission_Eq(a, b) ==
    IF a.LandAtEnd # b.LandAtEnd \/ a.CurvedFlight # b.CurvedFlight THEN FALSE
    ELSE IF Len(a.Waypoints) # Len(b.Waypoints) THEN FALSE
    ELSE \A n \in 1..Len(a.Waypoints) : Waypoint_Eq(a.Waypoints[n], b.Waypoints[n])

\* WaypointMission::operator== (calib.h 1075-1085)
WaypointMission_Eq(a, b) ==
    IF a.LandAtLastWaypoint # b.LandAtLastWaypoint \/ a.CurvedTrajectory # b.CurvedTrajectory
    THEN FALSE
    ELSE IF Len(a.Waypoints) # Len(b.Waypoints) THEN FALSE
    ELSE \A n \in 1..Len(a.Waypoints) : Waypoint_Eq(a.Waypoints[n], b.Waypoints[n])

Packet_VirtualStickCommand_Eq(a, b) ==
    /\ a.Mode = b.Mode
    /\ FloatEq32(a.Yaw, b.Yaw)
    /\ FloatEq32(a.V_x, b.V_x)
    /\ FloatEq32(a.V_y, b.V_y)
    /\ FloatEq32(a.HAG, b.HAG)
    /\ FloatEq32(a.timeout, b.timeout)

\* a == b for two messages of one variant
MsgEq(a, b) ==
    CASE a.variant = "CoreTelemetry"          -> Packet_CoreTelemetry_Eq(a, b)
      [] a.variant = "ExtendedTelemetry"      -> Packet_ExtendedTelemetry_Eq(a, b)
      [] a.variant = "Image"                  -> Packet_Image_Eq(a, b)
      [] a.variant = "CompressedImage"        -> Packet_Image_Eq(a, b)
      [] a.variant = "Acknowledgment"         -> Packet_Acknowledgment_Eq(a, b)
      [] a.variant = "MessageString"          -> Packet_MessageString_Eq(a, b)
      [] a.variant = "EmergencyCommand"       -> Packet_EmergencyCommand_Eq(a, b)
      [] a.variant = "CameraControl"          -> Packet_CameraControl_Eq(a, b)
      [] a.variant = "ExecuteWaypointMission" -> Packet_ExecuteWaypointMission_Eq(a, b)
      [] a.variant = "VirtualStickCommand"    -> Packet_VirtualStickCommand_Eq(a, b)

(***************************************************************************)
(* The messages of the model: every variant, with field values that        *)
(* exercise both bytes of the 16-bit fields, empty and non-empty strings,  *)
(* a payload holding the sync marker, NaN and non-NaN floats, angles       *)
(* inside and outside (-pi, pi], and 8-bit 3-channel and other frames.     *)
(***************************************************************************)
Strings == {<<>>, <<72>>, <<72, 105>>, <<218, 167>>}

Frames ==
    {DefaultMat,
     Mat(0, 0, "CV_8UC3", <<>>),
     Mat(1, 1, "CV_8UC3", <<(<<1, 2, 3>>)>>),
     Mat(1, 2, "CV_8UC3", <<(<<1, 2, 3>>), (<<4, 5, 6>>)>>),
     Mat(2, 1, "CV_8UC3", <<(<<218, 167, 0>>), (<<255, 0, 7>>)>>)}

\* Waypoint(): the default member initialisers (calib.h 992-1007)
DefaultWaypoint ==
    [Latitude |-> D_0, Longitude |-> D_0, RelAltitude |-> D_0,
     CornerRadius |-> F_0_2, Speed |-> F_1, LoiterTime |-> F_NaN, GimbalPitch |-> F_NaN]

WaypointValues ==
    {DefaultWaypoint,
     [Latitude |-> D_1, Longitude |-> D_m1, RelAltitude |-> D_0_5,
      CornerRadius |-> F_0_2, Speed |-> F_2, LoiterTime |-> F_4, GimbalPitch |-> F_m1],
     [Latitude |-> D_0_5, Longitude |-> D_1, RelAltitude |-> D_1,
      CornerRadius |-> F_1, Speed |-> F_10, LoiterTime |-> F_0, GimbalPitch |-> F_10]}

WaypointLists == UNION {[1..n -> WaypointValues] : n \in 0..MaxWaypoints}

CoreTelemetryMessages ==
    {[variant |-> "CoreTelemetry", IsFlying |-> f, Latitude |-> lat, Longitude |-> D_m1,
      Altitude |-> D_0_5, HAG |-> D_0, V_N |-> F_0, V_E |-> F_1, V_D |-> F_m1,
      Yaw |-> yaw, Pitch |-> D_0, Roll |-> D_1] :
        f \in {0, 1}, lat \in {D_0, D_1}, yaw \in {D_0, D_NaN}}

ExtendedTelemetryMessages ==
    {[variant |-> "ExtendedTelemetry", GNSSSatCount |-> sat, GNSSSignal |-> 5,
      MaxHeight |-> 1, MaxDist |-> 0, BatLevel |-> 99, BatWarning |-> 2, WindLevel |-> 3,
      DJICam |-> 1, FlightMode |-> 218, MissionID |-> 513, DroneSerial |-> str] :
        sat \in {0, 258}, str \in Strings}

ImageMessages ==
    {[variant |-> "Image", TargetFPS |-> F_1, Frame |-> fr] : fr \in Frames}

CompressedImageMessages ==
    {[variant |-> "CompressedImage", TargetFPS |-> F_2, Frame |-> fr] : fr \in Frames}

AcknowledgmentMessages ==
    {[variant |-> "Acknowledgment", Positive |-> pos, SourcePID |-> src] :
        pos \in {0, 1, 218}, src \in {167, 255}}

MessageStringMessages ==
    {[variant |-> "MessageString", Type |-> t, Message |-> str] :
        t \in {0, 3}, str \in Strings}

EmergencyCommandMessages ==
    {[variant |-> "EmergencyCommand", Action |-> a] : a \in {0, 1, 2, 218}}

CameraControlMessages ==
    {[variant |-> "CameraControl", Action |-> a, TargetFPS |-> fps] :
        a \in {0, 1}, fps \in {F_0, F_1, F_NaN}}

ExecuteWaypointMissionMessages ==
    {[variant |-> "ExecuteWaypointMission", LandAtEnd |-> l, CurvedFlight |-> 1,
      Waypoints |-> wps] :
        l \in {0, 1}, wps \in WaypointLists}

VirtualStickCommandMessages ==
    {[variant |-> "VirtualStickCommand", Mode |-> mode, Yaw |-> yaw, V_x |-> F_0,
      V_y |-> F_1, HAG |-> F_10, timeout |-> F_2] :
        mode \in {0, 1}, yaw \in {F_0, F_1, F_m1, F_4, F_Pi, F_1e37, F_NaN}}

Messages ==
    CoreTelemetryMessages \cup ExtendedTelemetryMessages \cup ImageMessages
    \cup CompressedImageMessages \cup AcknowledgmentMessages \cup MessageStringMessages
    \cup EmergencyCommandMessages \cup CameraControlMessages
    \cup ExecuteWaypointMissionMessages \cup VirtualStickCommandMessages

Variants == {m.variant : m \in Messages}

\* the message objects Deserialize is called on, in the state some earlier
\* use left them in
Receivers ==
    {m \in CoreTelemetryMessages : m.IsFlying = 1 /\ m.Latitude = D_1 /\ m.Yaw = D_0}
    \cup {m \in ExtendedTelemetryMessages : m.GNSSSatCount = 258 /\ m.DroneSerial = <<72>>}
    \cup {m \in ImageMessages : m.Frame \in {DefaultMat, Mat(1, 1, "CV_8UC3", <<(<<1, 2, 3>>)>>)}}
    \cup {m \in CompressedImageMessages : m.Frame = DefaultMat}
    \cup {m \in AcknowledgmentMessages : m.Positive = 1 /\ m.SourcePID = 255}
    \cup {m \in MessageStringMessages : m.Type = 3 /\ m.Message = <<72>>}
    \cup {m \in EmergencyCommandMessages : m.Action = 2}
    \cup {m \in CameraControlMessages : m.Action = 1 /\ m.TargetFPS = F_1}
    \cup {m \in ExecuteWaypointMissionMessages :
              m.LandAtEnd = 0 /\ m.Waypoints \in {<<>>, <<DefaultWaypoint>>}}
    \cup {m \in VirtualStickCommandMessages : m.Mode = 1 /\ m.Yaw = F_1}

(***************************************************************************)
(* Waypoint distances (calib.h 1041-1057, MapUtils.hpp 39-53).  The        *)
(* arithmetic on double is IEEE-754 binary64 arithmetic, each operation    *)
(* tabulated for the operands the Waypoints of the model bring about.      *)
(***************************************************************************)
D_50 == <<16457, 0, 0, 0>>      \* 50.0
D_1e200 == <<26996, 59160, 55255, 25178>>   \* 1e200
D_1em200 == <<5736, 32402, 5454, 63404>>   \* 1e-200

\* LLA2ECEF(Eigen::Vector3d(lat, lon, 0.0)): the vector <<X, Y, Z>>
LLA2ECEF(lat, lon) ==
    CASE lat = <<0, 0, 0, 0>> /\ lon = <<0, 0, 0, 0>> ->
             <<<<16728, 21670, 16384, 0>>,
               <<0, 0, 0, 0>>,
               <<0, 0, 0, 0>>>>
      [] lat = <<16352, 0, 0, 0>> /\ lon = <<16368, 0, 0, 0>> ->
             <<<<16711, 5965, 2605, 40046>>,
               <<16721, 64295, 8840, 23510>>,
               <<16711, 12527, 29715, 47227>>>>
      [] lat = <<16368, 0, 0, 0>> /\ lon = <<49136, 0, 0, 0>> ->
             <<<<16700, 31368, 26450, 58276>>,
               <<49478, 11562, 33688, 37371>>,
               <<16724, 25222, 7305, 28214>>>>
      [] lat = <<32760, 0, 0, 0>> /\ lon = <<0, 0, 0, 0>> ->
             <<<<32760, 0, 0, 0>>,
               <<32760, 0, 0, 0>>,
               <<32760, 0, 0, 0>>>>
      [] OTHER -> NotTabulated

\* a - b on double
Sub64(a, b) ==
    CASE a = <<0, 0, 0, 0>> /\ b = <<0, 0, 0, 0>> ->
             <<0, 0, 0, 0>>
      [] a = <<0, 0, 0, 0>> /\ b = <<5736, 32402, 5454, 63404>> ->
             <<38504, 32402, 5454, 63404>>
      [] a = <<0, 0, 0, 0>> /\ b = <<16457, 0, 0, 0>> ->
             <<49225, 0, 0, 0>>
      [] a = <<0, 0, 0, 0>> /\ b = <<16711, 12527, 29715, 47227>> ->
             <<49479, 12527, 29715, 47227>>
      [] a = <<0, 0, 0, 0>> /\ b = <<16721, 64295, 8840, 23510>> ->
             <<49489, 64295, 8840, 23510>>
      [] a = <<0, 0, 0, 0>> /\ b = <<16724, 25222, 7305, 28214>> ->
             <<49492, 25222, 7305, 28214>>
      [] a = <<0, 0, 0, 0>> /\ b = <<26996, 59160, 55255, 25178>> ->
             <<59764, 59160, 55255, 25178>>
      [] a = <<0, 0, 0, 0>> /\ b = <<32760, 0, 0, 0>> ->
             <<32760, 0, 0, 0>>
      [] a = <<0, 0, 0, 0>> /\ b = <<49478, 11562, 33688, 37371>> ->
             <<16710, 11562, 33688, 37371>>
      [] a = <<5736, 32402, 5454, 63404>> /\ b = <<0, 0, 0, 0>> ->
             <<5736, 32402, 5454, 63404>>
      [] a = <<5736, 32402, 5454, 63404>> /\ b = <<5736, 32402, 5454, 63404>> ->
             <<0, 0, 0, 0>>
      [] a = <<5736, 32402, 5454, 63404>> /\ b = <<16457, 0, 0, 0>> ->
             <<49225, 0, 0, 0>>
      [] a = <<5736, 32402, 5454, 63404>> /\ b = <<26996, 59160, 55255, 25178>> ->
             <<59764, 59160, 55255, 25178>>
      [] a = <<16457, 0, 0, 0>> /\ b = <<0, 0, 0, 0>> ->
             <<16457, 0, 0, 0>>
      [] a = <<16457, 0, 0, 0>> /\ b = <<5736, 32402, 5454, 63404>> ->
             <<16457, 0, 0, 0>>
      [] a = <<16457, 0, 0, 0>> /\ b = <<16457, 0, 0, 0>> ->
             <<0, 0, 0, 0>>
      [] a = <<16457, 0, 0, 0>> /\ b = <<26996, 59160, 55255, 25178>> ->
             <<59764, 59160, 55255, 25178>>
      [] a = <<16700, 31368, 26450, 58276>> /\ b = <<16700, 31368, 26450, 58276>> ->
             <<0, 0, 0, 0>>
      [] a = <<16700, 31368, 26450, 58276>> /\ b = <<16711, 5965, 2605, 40046>> ->
             <<49457, 46097, 44296, 21816>>
      [] a = <<16700, 31368, 26450, 58276>> /\ b = <<16728, 21670, 16384, 0>> ->
             <<49489, 13828, 9771, 18199>>
      [] a = <<16700, 31368, 26450, 58276>> /\ b = <<32760, 0, 0, 0>> ->
             <<32760, 0, 0, 0>>
      [] a = <<16711, 5965, 2605, 40046>> /\ b = <<16700, 31368, 26450, 58276>> ->
             <<16689, 46097, 44296, 21816>>
      [] a = <<16711, 5965, 2605, 40046>> /\ b = <<16711, 5965, 2605, 40046>> ->
             <<0, 0, 0, 0>>
      [] a = <<16711, 5965, 2605, 40046>> /\ b = <<16728, 21670, 16384, 0>> ->
             <<49481, 37375, 30162, 25490>>
      [] a = <<16711, 5965, 2605, 40046>> /\ b = <<32760, 0, 0, 0>> ->
             <<32760, 0, 0, 0>>
      [] a = <<16711, 12527, 29715, 47227>> /\ b = <<0, 0, 0, 0>> ->
             <<16711, 12527, 29715, 47227>>
      [] a = <<16711, 12527, 29715, 47227>> /\ b = <<16711, 12527, 29715, 47227>> ->
             <<0, 0, 0, 0>>
      [] a = <<16711, 12527, 29715, 47227>> /\ b = <<16724, 25222, 7305, 28214>> ->
             <<49473, 37916, 50431, 9201>>
      [] a = <<16711, 12527, 29715, 47227>> /\ b = <<32760, 0, 0, 0>> ->
             <<32760, 0, 0, 0>>
      [] a = <<16721, 64295, 8840, 23510>> /\ b = <<0, 0, 0, 0>> ->
             <<16721, 64295, 8840, 23510>>
      [] a = <<16721, 64295, 8840, 23510>> /\ b = <<16721, 64295, 8840, 23510>> ->
             <<0, 0, 0, 0>>
      [] a = <<16721, 64295, 8840, 23510>> /\ b = <<32760, 0, 0, 0>> ->
             <<32760, 0, 0, 0>>
      [] a = <<16721, 64295, 8840, 23510>> /\ b = <<49478, 11562, 33688, 37371>> ->
             <<16733, 4540, 25684, 42196>>
      [] a = <<16724, 25222, 7305, 28214>> /\ b = <<0, 0, 0, 0>> ->
             <<16724, 25222, 7305, 28214>>
      [] a = <<16724, 25222, 7305, 28214>> /\ b = <<16711, 12527, 29715, 47227>> ->
             <<16705, 37916, 50431, 9201>>
      [] a = <<16724, 25222, 7305, 28214>> /\ b = <<16724, 25222, 7305, 28214>> ->
             <<0, 0, 0, 0>>
      [] a = <<16724, 25222, 7305, 28214>> /\ b = <<32760, 0, 0, 0>> ->
             <<32760, 0, 0, 0>>
      [] a = <<16728, 21670, 16384, 0>> /\ b = <<16700, 31368, 26450, 58276>> ->
             <<16721, 13828, 9771, 18199>>
      [] a = <<16728, 21670, 16384, 0>> /\ b = <<16711, 5965, 2605, 40046>> ->
             <<16713, 37375, 30162, 25490>>
      [] a = <<16728, 21670, 16384, 0>> /\ b = <<16728, 21670, 16384, 0>> ->
             <<0, 0, 0, 0>>
      [] a = <<16728, 21670, 16384, 0>> /\ b = <<32760, 0, 0, 0>> ->
             <<32760, 0, 0, 0>>
      [] a = <<26996, 59160, 55255, 25178>> /\ b = <<0, 0, 0, 0>> ->
             <<26996, 59160, 55255, 25178>>
      [] a = <<26996, 59160, 55255, 25178>> /\ b = <<5736, 32402, 5454, 63404>> ->
             <<26996, 59160, 55255, 25178>>
      [] a = <<26996, 59160, 55255, 25178>> /\ b = <<16457, 0, 0, 0>> ->
             <<26996, 59160, 55255, 25178>>
      [] a = <<26996, 59160, 55255, 25178>> /\ b = <<26996, 59160, 55255, 25178>> ->
             <<0, 0, 0, 0>>
      [] a = <<32760, 0, 0, 0>> /\ b = <<0, 0, 0, 0>> ->
             <<32760, 0, 0, 0>>
      [] a = <<32760, 0, 0, 0>> /\ b = <<16700, 31368, 26450, 58276>> ->
             <<32760, 0, 0, 0>>
      [] a = <<32760, 0, 0, 0>> /\ b = <<16711, 5965, 2605, 40046>> ->
             <<32760, 0, 0, 0>>
      [] a = <<32760, 0, 0, 0>> /\ b = <<16711, 12527, 29715, 47227>> ->
             <<32760, 0, 0, 0>>
      [] a = <<32760, 0, 0, 0>> /\ b = <<16721, 64295, 8840, 23510>> ->
             <<32760, 0, 0, 0>>
      [] a = <<32760, 0, 0, 0>> /\ b = <<16724, 25222, 7305, 28214>> ->
             <<32760, 0, 0, 0>>
      [] a = <<32760, 0, 0, 0>> /\ b = <<16728, 21670, 16384, 0>> ->
             <<32760, 0, 0, 0>>
      [] a = <<32760, 0, 0, 0>> /\ b = <<32760, 0, 0, 0>> ->
             <<32760, 0, 0, 0>>
      [] a = <<32760, 0, 0, 0>> /\ b = <<49478, 11562, 33688, 37371>> ->
             <<32760, 0, 0, 0>>
      [] a = <<49478, 11562, 33688, 37371>> /\ b = <<0, 0, 0, 0>> ->
             <<49478, 11562, 33688, 37371>>
      [] a = <<49478, 11562, 33688, 37371>> /\ b = <<16721, 64295, 8840, 23510>> ->
             <<49501, 4540, 25684, 42196>>
      [] a = <<49478, 11562, 33688, 37371>> /\ b = <<32760, 0, 0, 0>> ->
             <<32760, 0, 0, 0>>
      [] a = <<49478, 11562, 33688, 37371>> /\ b = <<49478, 11562, 33688, 37371>> ->
             <<0, 0, 0, 0>>
      [] OTHER -> NotTabulated

\* a * b on double
Mul64(a, b) ==
    CASE a = <<0, 0, 0, 0>> /\ b = <<0, 0, 0, 0>> ->
             <<0, 0, 0, 0>>
      [] a = <<5736, 32402, 5454, 63404>> /\ b = <<5736, 32402, 5454, 63404>> ->
             <<0, 0, 0, 0>>
      [] a = <<16457, 0, 0, 0>> /\ b = <<16457, 0, 0, 0>> ->
             <<16547, 34816, 0, 0>>
      [] a = <<16689, 46097, 44296, 21816>> /\ b = <<16689, 46097, 44296, 21816>> ->
             <<17011, 38544, 7546, 30613>>
      [] a = <<16705, 37916, 50431, 9201>> /\ b = <<16705, 37916, 50431, 9201>> ->
             <<17043, 20504, 14094, 22384>>
      [] a = <<16710, 11562, 33688, 37371>> /\ b = <<16710, 11562, 33688, 37371>> ->
             <<17054, 48308, 27000, 49859>>
      [] a = <<16711, 12527, 29715, 47227>> /\ b = <<16711, 12527, 29715, 47227>> ->
             <<17056, 52899, 3128, 25574>>
      [] a = <<16713, 37375, 30162, 25490>> /\ b = <<16713, 37375, 30162, 25490>> ->
             <<17060, 28345, 17195, 56757>>
      [] a = <<16721, 13828, 9771, 18199>> /\ b = <<16721, 13828, 9771, 18199>> ->
             <<17074, 33663, 11550, 44705>>
      [] a = <<16721, 64295, 8840, 23510>> /\ b = <<16721, 64295, 8840, 23510>> ->
             <<17076, 13593, 34204, 61963>>
      [] a = <<16724, 25222, 7305, 28214>> /\ b = <<16724, 25222, 7305, 28214>> ->
             <<17081, 63661, 63129, 17726>>
      [] a = <<16728, 60595, 21444, 44114>> /\ b = <<16728, 60595, 21444, 44114>> ->
             <<17091, 27107, 54951, 35180>>
      [] a = <<16732, 58414, 56607, 44069>> /\ b = <<16732, 58414, 56607, 44069>> ->
             <<17098, 5549, 7947, 4681>>
      [] a = <<16733, 4540, 25684, 42196>> /\ b = <<16733, 4540, 25684, 42196>> ->
             <<17098, 26671, 19033, 8397>>
      [] a = <<16734, 45205, 35293, 36609>> /\ b = <<16734, 45205, 35293, 36609>> ->
             <<17101, 28390, 53798, 49016>>
      [] a = <<26996, 59160, 55255, 25178>> /\ b = <<26996, 59160, 55255, 25178>> ->
             <<32752, 0, 0, 0>>
      [] a = <<32760, 0, 0, 0>> /\ b = <<32760, 0, 0, 0>> ->
             <<32760, 0, 0, 0>>
      [] a = <<49457, 46097, 44296, 21816>> /\ b = <<49457, 46097, 44296, 21816>> ->
             <<17011, 38544, 7546, 30613>>
      [] a = <<49473, 37916, 50431, 9201>> /\ b = <<49473, 37916, 50431, 9201>> ->
             <<17043, 20504, 14094, 22384>>
      [] a = <<49478, 11562, 33688, 37371>> /\ b = <<49478, 11562, 33688, 37371>> ->
             <<17054, 48308, 27000, 49859>>
      [] a = <<49479, 12527, 29715, 47227>> /\ b = <<49479, 12527, 29715, 47227>> ->
             <<17056, 52899, 3128, 25574>>
      [] a = <<49481, 37375, 30162, 25490>> /\ b = <<49481, 37375, 30162, 25490>> ->
             <<17060, 28345, 17195, 56757>>
      [] a = <<49489, 13828, 9771, 18199>> /\ b = <<49489, 13828, 9771, 18199>> ->
             <<17074, 33663, 11550, 44705>>
      [] a = <<49489, 64295, 8840, 23510>> /\ b = <<49489, 64295, 8840, 23510>> ->
             <<17076, 13593, 34204, 61963>>
      [] a = <<49492, 25222, 7305, 28214>> /\ b = <<49492, 25222, 7305, 28214>> ->
             <<17081, 63661, 63129, 17726>>
      [] a = <<49501, 4540, 25684, 42196>> /\ b = <<49501, 4540, 25684, 42196>> ->
             <<17098, 26671, 19033, 8397>>
      [] OTHER -> NotTabulated

\* a + b on double
Add64(a, b) ==
    CASE a = <<0, 0, 0, 0>> /\ b = <<0, 0, 0, 0>> ->
             <<0, 0, 0, 0>>
      [] a = <<0, 0, 0, 0>> /\ b = <<16547, 34816, 0, 0>> ->
             <<16547, 34816, 0, 0>>
      [] a = <<0, 0, 0, 0>> /\ b = <<32752, 0, 0, 0>> ->
             <<32752, 0, 0, 0>>
      [] a = <<17011, 38544, 7546, 30613>> /\ b = <<17098, 26671, 19033, 8397>> ->
             <<17099, 1251, 52036, 62602>>
      [] a = <<17060, 28345, 17195, 56757>> /\ b = <<17076, 13593, 34204, 61963>> ->
             <<17086, 27766, 10034, 57574>>
      [] a = <<17074, 33663, 11550, 44705>> /\ b = <<17054, 48308, 27000, 49859>> ->
             <<17082, 12972, 18300, 57170>>
      [] a = <<17082, 12972, 18300, 57170>> /\ b = <<17081, 63661, 63129, 17726>> ->
             <<17098, 5549, 7947, 4680>>
      [] a = <<17086, 27766, 10034, 57574>> /\ b = <<17056, 52899, 3128, 25574>> ->
             <<17091, 27107, 54951, 35180>>
      [] a = <<17091, 27107, 54951, 35180>> /\ b = <<0, 0, 0, 0>> ->
             <<17091, 27107, 54951, 35180>>
      [] a = <<17091, 27107, 54951, 35180>> /\ b = <<16547, 34816, 0, 0>> ->
             <<17091, 27107, 54956, 27500>>
      [] a = <<17091, 27107, 54951, 35180>> /\ b = <<32752, 0, 0, 0>> ->
             <<32752, 0, 0, 0>>
      [] a = <<17098, 5549, 7947, 4681>> /\ b = <<0, 0, 0, 0>> ->
             <<17098, 5549, 7947, 4681>>
      [] a = <<17098, 5549, 7947, 4681>> /\ b = <<16547, 34816, 0, 0>> ->
             <<17098, 5549, 7951, 62537>>
      [] a = <<17098, 5549, 7947, 4681>> /\ b = <<32752, 0, 0, 0>> ->
             <<32752, 0, 0, 0>>
      [] a = <<17099, 1251, 52036, 62602>> /\ b = <<17043, 20504, 14094, 22384>> ->
             <<17101, 28390, 53798, 49016>>
      [] a = <<17101, 28390, 53798, 49016>> /\ b = <<0, 0, 0, 0>> ->
             <<17101, 28390, 53798, 49016>>
      [] a = <<17101, 28390, 53798, 49016>> /\ b = <<16547, 34816, 0, 0>> ->
             <<17101, 28390, 53803, 41336>>
      [] a = <<17101, 28390, 53798, 49016>> /\ b = <<32752, 0, 0, 0>> ->
             <<32752, 0, 0, 0>>
      [] a = <<32760, 0, 0, 0>> /\ b = <<0, 0, 0, 0>> ->
             <<32760, 0, 0, 0>>
      [] a = <<32760, 0, 0, 0>> /\ b = <<16547, 34816, 0, 0>> ->
             <<32760, 0, 0, 0>>
      [] a = <<32760, 0, 0, 0>> /\ b = <<32752, 0, 0, 0>> ->
             <<32760, 0, 0, 0>>
      [] a = <<32760, 0, 0, 0>> /\ b = <<32760, 0, 0, 0>> ->
             <<32760, 0, 0, 0>>
      [] OTHER -> NotTabulated

\* std::sqrt(a)
Sqrt64(a) ==
    CASE a = <<0, 0, 0, 0>> -> <<0, 0, 0, 0>>
      [] a = <<16547, 34816, 0, 0>> -> <<16457, 0, 0, 0>>
      [] a = <<17091, 27107, 54951, 35180>> -> <<16728, 60595, 21444, 44114>>
      [] a = <<17091, 27107, 54956, 27500>> -> <<16728, 60595, 21447, 52925>>
      [] a = <<17098, 5549, 7947, 4680>> -> <<16732, 58414, 56607, 44069>>
      [] a = <<17098, 5549, 7947, 4681>> -> <<16732, 58414, 56607, 44069>>
      [] a = <<17098, 5549, 7951, 62537>> -> <<16732, 58414, 56610, 24677>>
      [] a = <<17101, 28390, 53798, 49016>> -> <<16734, 45205, 35293, 36609>>
      [] a = <<17101, 28390, 53803, 41336>> -> <<16734, 45205, 35296, 6832>>
      [] a = <<32752, 0, 0, 0>> -> <<32752, 0, 0, 0>>
      [] a = <<32760, 0, 0, 0>> -> <<32760, 0, 0, 0>>
      [] OTHER -> NotTabulated

\* std::fabs(a): the sign bit cleared
Fabs64(a) == <<a[1] % 32768, a[2], a[3], a[4]>>

\* (WPB_ECEF - WPA_ECEF) of Eigen::Vector3d
VectorSub(v, w) == <<Sub64(v[1], w[1]), Sub64(v[2], w[2]), Sub64(v[3], w[3])>>

\* Eigen's v.norm(): the square root of the sum of the squares
VectorNorm(v) ==
    Sqrt64(Add64(Add64(Mul64(v[1], v[1]), Mul64(v[2], v[2])), Mul64(v[3], v[3])))

DistBetweenWaypoints2D(WPA, WPB) ==
    LET WPA_ECEF == LLA2ECEF(WPA.Latitude, WPA.Longitude)
        WPB_ECEF == LLA2ECEF(WPB.Latitude, WPB.Longitude)
    IN  VectorNorm(VectorSub(WPB_ECEF, WPA_ECEF))

\* DistBetweenWaypoints3D without the vertical term of line 1056
DistBetweenWaypoints3D_Level(WPA, WPB) ==
    LET WPA_ECEF == LLA2ECEF(WPA.Latitude, WPA.Longitude)
        WPB_ECEF == LLA2ECEF(WPB.Latitude, WPB.Longitude)
        distance2D == VectorNorm(VectorSub(WPB_ECEF, WPA_ECEF))
    IN  Sqrt64(Mul64(distance2D, distance2D))

DistBetweenWaypoints3D(WPA, WPB) ==
    LET WPA_ECEF == LLA2ECEF(WPA.Latitude, WPA.Longitude)
        WPB_ECEF == LLA2ECEF(WPB.Latitude, WPB.Longitude)
        distance2D == VectorNorm(VectorSub(WPB_ECEF, WPA_ECEF))
        distanceVert == Fabs64(Sub64(WPB.RelAltitude, WPA.RelAltitude))
    IN  Sqrt64(Add64(Mul64(distance2D, distance2D), Mul64(distanceVert, distanceVert)))

\* Waypoints at four places, one of them with a NaN latitude, and at four
\* relative altitudes
GeoWaypoints ==
    {[DefaultWaypoint EXCEPT !.Latitude = p[1], !.Longitude = p[2], !.RelAltitude = alt] :
        p \in {<<D_0, D_0>>, <<D_1, D_m1>>, <<D_0_5, D_1>>, <<D_NaN, D_0>>},
        alt \in {D_0, D_50, D_1e200, D_1em200}}

(***************************************************************************)
(* Packet: the operations on the buffer and the header cache               *)
(* (calib.h 258-315).  A Packet value p is the record of its four fields;  *)
(* each operation gives the Packet it leaves and what it returns.          *)
(***************************************************************************)
\* m_size and m_PID are read only at calib.h 272 and 284, each time after the
\* refresh of 266-271 / 278-283 has made M_highLevelFieldsValid true.  What
\* they hold while the flag is false (nothing yet, or the header of bytes
\* since discarded) is never read, and the model writes it NoHeader: the
\* operations that clear the flag leave the two fields alone in the code and
\* set them to NoHeader here.
NoHeader == "NoHeader"

Packet(data, valid, size, PID) ==
    [m_data |-> data, M_highLevelFieldsValid |-> valid, m_size |-> size, m_PID |-> PID]

\* the Packet of the state
ThisPacket == Packet(m_data, M_highLevelFieldsValid, m_size, m_PID)

\* Clear without line 260: the buffer emptied, the cache flag left as it was
Packet_ClearBufferOnly(p) == [p EXCEPT !.m_data = <<>>]

Packet_Clear(p) == Packet(<<>>, FALSE, NoHeader, NoHeader)

\* the refresh of the header cache reading the size one byte late
CacheHeaderShifted(p) ==
    IF ~p.M_highLevelFieldsValid
    THEN Packet(p.m_data, TRUE, decodeField_uint32(p.m_data, 3).val,
                decodeField_uint8(p.m_data, 6).val)
    ELSE p

\* the refresh of the header cache shared by IsFinished and BytesNeeded
\* (calib.h 266-271, 278-283)
CacheHeader(p) ==
    IF ~p.M_highLevelFieldsValid
    THEN Packet(p.m_data, TRUE, decodeField_uint32(p.m_data, 2).val,
                decodeField_uint8(p.m_data, 6).val)
    ELSE p

Packet_IsFinished(p) ==
    IF Len(p.m_data) < 7 THEN [ret |-> FALSE, p |-> p]
    ELSE LET q == CacheHeader(p)
         IN  [ret |-> SizeReached(Len(q.m_data), q.m_size), p |-> q]

Packet_BytesNeeded(p, ByteCount) ==
    IF Len(p.m_data) < 7 THEN [ret |-> FALSE, ByteCount |-> ByteCount, p |-> p]
    ELSE LET q == CacheHeader(p)
         IN  [ret |-> TRUE,
              ByteCount |-> U32Sub(q.m_size, U32OfNat(Len(q.m_data))),
              p |-> q]

\* the scan loop with the first half of the test of line 295 alone
SyncIndices_FirstByte(data) ==
    {newHeadIndex \in 1..(Len(data) - 2) : data[newHeadIndex + 1] = 218}

\* the scan loop started at newHeadIndex = 0U instead of 1U
SyncIndicesFromZero(data) ==
    {newHeadIndex \in 0..(Len(data) - 2) :
        data[newHeadIndex + 1] = 218 /\ data[newHeadIndex + 2] = 167}

\* the indices newHeadIndex the scan loop accepts: 1 <= newHeadIndex,
\* newHeadIndex + 1 < size, bytes 218, 167 at newHeadIndex, newHeadIndex + 1
SyncIndices(data) ==
    {newHeadIndex \in 1..(Len(data) - 2) :
        data[newHeadIndex + 1] = 218 /\ data[newHeadIndex + 2] = 167}

\* the index a scan loop counting down from the end would stop at
LastOf(S) == CHOOSE x \in S : \A y \in S : y <= x

\* the first index the scan loop, counting up, stops at
FirstOf(S) == CHOOSE x \in S : \A y \in S : x <= y

\* ForwardScanForSync without lines 302, 310: the cache left as it was
Packet_ForwardScanForSync_KeepCache(p) ==
    IF p.m_data = <<>> THEN p
    ELSE IF SyncIndices(p.m_data) # {}
    THEN [p EXCEPT !.m_data = SubSeq(p.m_data, FirstOf(SyncIndices(p.m_data)) + 1,
                                     Len(p.m_data))]
    ELSE IF Len(p.m_data) > 1 /\ p.m_data[Len(p.m_data)] = 218
    THEN [p EXCEPT !.m_data = <<218>>]
    ELSE Packet(<<>>, FALSE, NoHeader, NoHeader)

\* ForwardScanForSync with the test of line 307 read as "the last byte is
\* 218", whatever the size
Packet_ForwardScanForSync_KeepLone(p) ==
    IF p.m_data = <<>> THEN p
    ELSE IF SyncIndices(p.m_data) # {}
    THEN Packet(SubSeq(p.m_data, FirstOf(SyncIndices(p.m_data)) + 1, Len(p.m_data)),
                FALSE, NoHeader, NoHeader)
    ELSE IF p.m_data[Len(p.m_data)] = 218
    THEN Packet(<<218>>, FALSE, NoHeader, NoHeader)
    ELSE Packet(<<>>, FALSE, NoHeader, NoHeader)

\* ForwardScanForSync without lines 307-314: a buffer in which no marker is
\* found is left as it is
Packet_ForwardScanForSync_NoDiscard(p) ==
    IF p.m_data = <<>> THEN p
    ELSE IF SyncIndices(p.m_data) # {}
    THEN Packet(SubSeq(p.m_data, FirstOf(SyncIndices(p.m_data)) + 1, Len(p.m_data)),
                FALSE, NoHeader, NoHeader)
    ELSE Packet(p.m_data, FALSE, NoHeader, NoHeader)

\* ForwardScanForSync without line 310: the lone 218 kept, the cache flag
\* left as it was
Packet_ForwardScanForSync_LoneKeepsCache(p) ==
    IF p.m_data = <<>> THEN p
    ELSE IF SyncIndices(p.m_data) # {}
    THEN Packet(SubSeq(p.m_data, FirstOf(SyncIndices(p.m_data)) + 1, Len(p.m_data)),
                FALSE, NoHeader, NoHeader)
    ELSE IF Len(p.m_data) > 1 /\ p.m_data[Len(p.m_data)] = 218
    THEN [p EXCEPT !.m_data = <<218>>]
    ELSE Packet(<<>>, FALSE, NoHeader, NoHeader)

Packet_ForwardScanForSync(p) ==
    IF p.m_data = <<>> THEN p
    ELSE IF SyncIndices(p.m_data) # {}
    THEN Packet(SubSeq(p.m_data, FirstOf(SyncIndices(p.m_data)) + 1, Len(p.m_data)),
                FALSE, NoHeader, NoHeader)
    ELSE IF Len(p.m_data) > 1 /\ p.m_data[Len(p.m_data)] = 218
    THEN Packet(<<218>>, FALSE, NoHeader, NoHeader)
    ELSE Packet(<<>>, FALSE, NoHeader, NoHeader)

\* Packet_X::Serialize(TargetPacket) on the Packet p: Clear, then the bytes
Packet_Serialize(p, m) == [Packet_Clear(p) EXCEPT !.m_data = Serialize(m)]

\* the Packet of the next state is q
SetPacket(q) ==
    /\ m_data' = q.m_data
    /\ M_highLevelFieldsValid' = q.M_highLevelFieldsValid
    /\ m_size' = q.m_size
    /\ m_PID' = q.m_PID

(***************************************************************************)
(* The operations as steps of the state, common to the specifications.     *)
(***************************************************************************)
Clear ==
    /\ SetPacket(Packet_Clear(ThisPacket))
    /\ lastOp' = "Clear"
    /\ ret' = [val |-> TRUE]

IsFinished ==
    /\ SetPacket(Packet_IsFinished(ThisPacket).p)
    /\ lastOp' = "IsFinished"
    /\ ret' = [val |-> Packet_IsFinished(ThisPacket).ret, old |-> ThisPacket]

BytesNeeded(ByteCount) ==
    /\ SetPacket(Packet_BytesNeeded(ThisPacket, ByteCount).p)
    /\ lastOp' = "BytesNeeded"
    /\ ret' = [val |-> Packet_BytesNeeded(ThisPacket, ByteCount).ret,
               ByteCount |-> Packet_BytesNeeded(ThisPacket, ByteCount).ByteCount,
               ByteCount0 |-> ByteCount,
               old |-> ThisPacket]

ForwardScanForSync ==
    /\ SetPacket(Packet_ForwardScanForSync(ThisPacket))
    /\ lastOp' = "ForwardScanForSync"
    /\ ret' = [old |-> ThisPacket]

SerializeInto(m) ==
    /\ SetPacket(Packet_Serialize(ThisPacket, m))
    /\ lastOp' = "Serialize"
    /\ ret' = [msg |-> m]

Range(seq) == {seq[i] : i \in 1..Len(seq)}

\* what a std::string filled from beyond the end of the vector may hold
\* when the reads do not fault: the bytes read inside the vector, then any
\* bytes
Resolved(val) ==
    IF OutOfBounds \in Range(val)
    THEN {SubSeq(val, 1, Len(val) - 1) \o t : t \in {<<0>>, <<7, 255>>}}
    ELSE {val}

\* the String field of msg that decodeField_String fills
StringFieldOf(msg) ==
    CASE msg.variant = "MessageString"     -> msg.Message
      [] msg.variant = "ExtendedTelemetry" -> msg.DroneSerial
      [] OTHER                             -> <<>>

\* the objects a Deserialize whose reads left the vector may produce when
\* the reads do not fault
ResolvedMsg(msg) ==
    CASE msg.variant = "MessageString" ->
             {[msg EXCEPT !.Message = val] : val \in Resolved(msg.Message)}
      [] msg.variant = "ExtendedTelemetry" ->
             {[msg EXCEPT !.DroneSerial = val] : val \in Resolved(msg.DroneSerial)}
      [] OTHER -> {msg}

\* target.Deserialize(SourcePacket) with this Packet as SourcePacket; the
\* call returns
DeserializeFrom(target) ==
    /\ lastOp' = "Deserialize"
    /\ \E msg \in ResolvedMsg(Deserialize(target, m_data).msg) :
          ret' = [val |-> Deserialize(target, m_data).ret,
                  msg |-> msg,
                  target |-> target,
                  old |-> ThisPacket]
    /\ UNCHANGED packetVars

\* the same call when the reads of its decodeField_String leave the vector
\* and fault
DeserializeFaults(target) ==
    /\ OutOfBounds \in Range(StringFieldOf(Deserialize(target, m_data).msg))
    /\ lastOp' = "Fault"
    /\ ret' = [in |-> "Deserialize", target |-> target]
    /\ UNCHANGED packetVars

(***************************************************************************)
(* Spec: one Packet under any sequence of its operations, the bytes        *)
(* pushed onto m_data one at a time by the owner.                          *)
(***************************************************************************)
ByteAlphabet == {0, 7, 167, 218}

ByteCounts == {U32(65535, 65535)}

\* the messages serialized into the Packet of Spec: short ones, one with the
\* sync marker in its payload, one with a marker byte last but two
FramingMessages ==
    {m \in EmergencyCommandMessages : m.Action \in {0, 218}}
    \cup {m \in AcknowledgmentMessages : m.Positive = 218}
    \cup {m \in MessageStringMessages : m.Type = 0 /\ m.Message = <<218, 167>>}

(***************************************************************************)
(* The state of the ShadowPropagationEngine singleton (Utilities.hpp       *)
(* 297-364) as its constructor leaves it.  m_callbackHandle has no         *)
(* initialiser: it holds whatever the memory held, handle here.            *)
(***************************************************************************)
\* the threads calling the public methods of the engine
Callers == {"ui", "guidance"}

\* the thread of the ShadowDetectionEngine that runs the registered callbacks
DetectionThread == "detection"

Threads == Callers \cup {DetectionThread}

\* a thread outside every method
Idle == [at |-> "idle", arg |-> 0]

\* an unordered_map of callbacks with no entry
NoCallbacks == [h \in {} |-> "none"]

InitEngine(handle) ==
    /\ m_mutex = "free"
    /\ m_running = FALSE
    /\ m_callbackHandle = handle
    /\ m_callbacks = NoCallbacks
    /\ m_unprocessedShadowMaps = <<>>
    /\ detectionCallbacks = NoCallbacks
    /\ calls = [t \in Threads |-> Idle]
    /\ arrived = 0
    /\ processedMaps = <<>>

Init ==
    /\ m_data = <<>>
    /\ M_highLevelFieldsValid = FALSE
    /\ m_size = NoHeader
    /\ m_PID = NoHeader
    /\ lastOp = "Init"
    /\ ret = [val |-> FALSE]
    /\ InitEngine(0)
    /\ wire = <<>>
    /\ pc = "idle"
    /\ delivered = <<>>
    /\ sent = <<>>
    /\ junk = <<>>

AppendByte(b) ==
    /\ Len(m_data) < MaxBuf
    /\ m_data' = Append(m_data, b)
    /\ lastOp' = "Append"
    /\ ret' = [val |-> TRUE]
    /\ UNCHANGED <<M_highLevelFieldsValid, m_size, m_PID>>

Next ==
    \/ Clear /\ UNCHANGED <<loopVars, engineVars>>
    \/ \E b \in ByteAlphabet : AppendByte(b) /\ UNCHANGED <<loopVars, engineVars>>
    \/ IsFinished /\ UNCHANGED <<loopVars, engineVars>>
    \/ \E ByteCount \in ByteCounts : BytesNeeded(ByteCount) /\ UNCHANGED <<loopVars, engineVars>>
    \/ ForwardScanForSync /\ UNCHANGED <<loopVars, engineVars>>
    \/ \E m \in FramingMessages : SerializeInto(m) /\ UNCHANGED <<loopVars, engineVars>>

Spec == Init /\ [][Next]_vars

(***************************************************************************)
(* SpecCodec: a sender and a receiver object of the catalog around one     *)
(* Packet: any message is serialized into it, any message object           *)
(* deserializes from it.                                                   *)
(***************************************************************************)
NextCodec ==
    \/ \E m \in Messages :
          SerializeInto(m) /\ sent' = <<m>> /\ UNCHANGED <<wire, pc, delivered, junk, engineVars>>
    \/ \E target \in Receivers : DeserializeFrom(target) /\ UNCHANGED <<loopVars, engineVars>>

SpecCodec == Init /\ [][NextCodec]_vars

(***************************************************************************)
(* SpecRecv: the receiver.  The sender serialized the messages of sent     *)
(* one after the other onto the wire.  With nothing ahead of the first     *)
(* packet the receiver runs its loop: append a chunk of any size,          *)
(* IsFinished, when true CheckHash, on failure ForwardScanForSync and      *)
(* IsFinished again, on success dispatch on the PID, Deserialize and       *)
(* Clear.  With junk ahead of the packet the whole wire is put into the    *)
(* Packet, ForwardScanForSync is called once (IsFinished may have been     *)
(* called on the buffer before) and the loop goes on from IsFinished.      *)
(***************************************************************************)
MaxStream == 2

LoopMessages ==
    {m \in EmergencyCommandMessages : m.Action \in {0, 218}}
    \cup {m \in AcknowledgmentMessages : m.Positive = 218 /\ m.SourcePID = 167}
    \cup {m \in MessageStringMessages : m.Type = 0 /\ m.Message = <<72, 105>>}
    \cup {m \in ImageMessages : m.Frame = Mat(0, 0, "CV_8UC3", <<>>)}

Streams == UNION {[1..n -> LoopMessages] : n \in 1..MaxStream}

Junks == {<<255, 255, 255>>, <<218>>, <<167, 218>>, <<0, 0, 0, 0, 0, 9, 255, 9>>}

RECURSIVE WireOf(_)
WireOf(msgs) == IF msgs = <<>> THEN <<>> ELSE Serialize(Head(msgs)) \o WireOf(Tail(msgs))

InitRecv ==
    /\ m_data = <<>>
    /\ M_highLevelFieldsValid = FALSE
    /\ m_size = NoHeader
    /\ m_PID = NoHeader
    /\ lastOp = "Init"
    /\ ret = [val |-> FALSE]
    /\ InitEngine(0)
    /\ delivered = <<>>
    /\ \/ /\ sent \in Streams
          /\ junk = <<>>
          /\ pc = "recv"
       \/ /\ sent \in {s \in Streams : Len(s) = 1}
          /\ junk \in Junks
          /\ pc = "load"
    /\ wire = junk \o WireOf(sent)

\* the receiver appends the next k bytes of the wire
Receive(k) ==
    /\ pc = "recv"
    /\ k <= Len(wire)
    /\ m_data' = m_data \o SubSeq(wire, 1, k)
    /\ wire' = SubSeq(wire, k + 1, Len(wire))
    /\ lastOp' = "Append"
    /\ ret' = [val |-> TRUE]
    /\ pc' = "check"
    /\ UNCHANGED <<M_highLevelFieldsValid, m_size, m_PID, delivered, sent, junk, engineVars>>

\* the whole wire is put into the Packet
Load ==
    /\ pc = "load"
    /\ m_data' = m_data \o wire
    /\ wire' = <<>>
    /\ lastOp' = "Append"
    /\ ret' = [val |-> TRUE]
    /\ pc' = "loaded"
    /\ UNCHANGED <<M_highLevelFieldsValid, m_size, m_PID, delivered, sent, junk, engineVars>>

\* IsFinished asked of the loaded buffer before the scan
Probe ==
    /\ pc = "loaded"
    /\ IsFinished
    /\ pc' = "probed"
    /\ UNCHANGED <<wire, delivered, sent, junk, engineVars>>

\* the one ForwardScanForSync of the loaded buffer
ScanLoaded ==
    /\ pc \in {"loaded", "probed"}
    /\ ForwardScanForSync
    /\ pc' = "check"
    /\ UNCHANGED <<wire, delivered, sent, junk, engineVars>>

Check ==
    /\ pc = "check"
    /\ IsFinished
    /\ pc' = IF Packet_IsFinished(ThisPacket).ret THEN "validate" ELSE "recv"
    /\ UNCHANGED <<wire, delivered, sent, junk, engineVars>>

Validate ==
    /\ pc = "validate"
    /\ lastOp' = "CheckHash"
    /\ ret' = [val |-> CheckHash(m_data)]
    /\ pc' = IF CheckHash(m_data) THEN "dispatch" ELSE "scan"
    /\ UNCHANGED <<packetVars, wire, delivered, sent, junk, engineVars>>

Scan ==
    /\ pc = "scan"
    /\ ForwardScanForSync
    /\ pc' = "check"
    /\ UNCHANGED <<wire, delivered, sent, junk, engineVars>>

\* the message objects the receiver holds for the PID of the buffer
ReceiversFor(data) ==
    {target \in Receivers : GetPID(data).ret /\ PIDOf(target.variant) = GetPID(data).PID}

Dispatch ==
    /\ pc = "dispatch"
    /\ \/ \E target \in ReceiversFor(m_data) :
             delivered' = Append(delivered, [ret |-> Deserialize(target, m_data).ret,
                                             msg |-> Deserialize(target, m_data).msg])
       \/ ReceiversFor(m_data) = {} /\ delivered' = delivered
    /\ Clear
    /\ pc' = "recv"
    /\ UNCHANGED <<wire, sent, junk, engineVars>>

NextRecv ==
    \/ \E k \in 1..Len(wire) : Receive(k)
    \/ Load
    \/ Probe
    \/ ScanLoaded
    \/ Check
    \/ Validate
    \/ Scan
    \/ Dispatch

SpecRecv == InitRecv /\ [][NextRecv]_vars

(***************************************************************************)
(* SpecWire: a Packet whose buffer came off the wire, from a peer that may *)
(* be another implementation or a faulty one: whole packets, pieces of     *)
(* packets, packets with bytes after them, and packets with a good header  *)
(* and checksum around a payload that no Serialize writes.  The validation *)
(* and decoding operations are called on it in any order.                  *)
(***************************************************************************)
\* AddHash is called on buffers of at most this many bytes.
MaxHashed == 8

PIDs == {PIDOf(v) : v \in Variants}

WirePackets == {Serialize(m) : m \in FramingMessages}

Prefixes(P) == {SubSeq(P, 1, n) : n \in 0..(Len(P) - 1)}

Extensions(P) == {P \o <<b>> : b \in ByteAlphabet}

\* the payload of the packet P: what stands between header and checksum
PayloadOf(P) == SubSeq(P, 8, Len(P) - 2)

\* a packet with the header and the checksum the protocol asks for around
\* the given payload
Framed(PID, payload) ==
    AddHash(AddHeader(<<>>, U32OfNat(9 + Len(payload)), PID) \o payload)

\* String fields as they may stand on the wire: the declared length right,
\* larger than what follows, near 2^32, cut short, smaller than what follows
StringFields ==
    {<<0, 0, 0, 0>>, <<0, 0, 0, 2, 72, 105>>, <<0, 0, 0, 2, 72>>, <<0, 0, 0, 5, 72, 105>>,
     <<255, 255, 255, 255, 72>>, <<255, 255, 255, 252>>, <<255, 255, 255, 254, 1, 2>>,
     <<0, 0>>, <<0, 0, 0, 1, 72, 105>>}

\* Image fields as they may stand on the wire: rows, cols, pixels
ImageFields ==
    {<<0, 0, 0, 0>>, <<0, 1, 0, 1, 1, 2, 3>>, <<0, 1, 0, 2, 1, 2, 3>>,
     <<0, 2, 0, 1, 1, 2, 3, 4, 5, 6>>, <<255, 255, 0, 1, 9>>, <<0, 1>>}

\* packets with a good header and checksum around a payload whose String
\* or Image field is any of the above
MessageStringPackets == {Framed(4, <<0>> \o f) : f \in StringFields}

ExtendedTelemetryPackets ==
    {Framed(1, <<1, 2, 5, 1, 0, 99, 2, 3, 1, 218, 2, 1>> \o f) : f \in StringFields}

ImagePackets == {Framed(2, encodeField_float32(<<>>, F_1) \o f) : f \in ImageFields}

\* missions of one waypoint or more as serialized, with a byte more, and
\* with the last byte of the payload missing
MissionPackets ==
    LET payloads == {PayloadOf(Serialize(m)) :
                        m \in {x \in ExecuteWaypointMissionMessages :
                                   /\ x.LandAtEnd = 1
                                   /\ x.Waypoints # <<>>
                                   /\ x.Waypoints[1] = DefaultWaypoint}}
    IN  {Framed(253, p) : p \in payloads}
        \cup {Framed(253, p \o <<7>>) : p \in payloads}
        \cup {Framed(253, SubSeq(p, 1, Len(p) - 1)) : p \in payloads}

\* what m_data may hold: packets, whole, cut short and with a byte more,
\* fields alone, seven bytes without the sync marker that declare nine, and
\* an Image field of 45761 rows and 62571 cols, whose 3*rows*cols + 4 is
\* 2^33 + 5
Buffers ==
    WirePackets
    \cup MessageStringPackets
    \cup ExtendedTelemetryPackets
    \cup ImagePackets
    \cup MissionPackets
    \cup UNION {Prefixes(P) : P \in WirePackets}
    \cup UNION {Extensions(P) : P \in WirePackets}
    \cup {<<0, 1, 2>>, <<0, 0, 0, 0, 0, 9, 5>>, <<178, 193, 244, 107, 9>>}
    \cup StringFields
    \cup ImageFields

\* the largest byte budget handed to the bounded decoders
MaxBudget == 8

Budgets == {U32OfNat(n) : n \in 0..MaxBudget}

\* where the cursor stands when a bounded decoder is called: at the start of
\* the buffer, or behind the header and the first payload byte of a packet
Cursors == {0, 8}


InitWire ==
    /\ m_data \in Buffers
    /\ M_highLevelFieldsValid = FALSE
    /\ m_size = NoHeader
    /\ m_PID = NoHeader
    /\ lastOp = "Init"
    /\ ret = [val |-> FALSE]
    /\ InitEngine(0)
    /\ wire = <<>>
    /\ pc = "idle"
    /\ delivered = <<>>
    /\ sent = <<>>
    /\ junk = <<>>

CheckHashOn ==
    /\ lastOp' = "CheckHash"
    /\ ret' = [val |-> CheckHash(m_data), old |-> ThisPacket]
    /\ UNCHANGED packetVars

CheckHashSizeAndPIDOn(PID) ==
    /\ lastOp' = "CheckHashSizeAndPID"
    /\ ret' = [val |-> CheckHashSizeAndPID(m_data, PID), PID |-> PID, old |-> ThisPacket]
    /\ UNCHANGED packetVars

AddHashOn ==
    /\ Len(m_data) <= MaxHashed
    /\ m_data' = AddHash(m_data)
    /\ lastOp' = "AddHash"
    /\ ret' = [old |-> ThisPacket]
    /\ UNCHANGED <<M_highLevelFieldsValid, m_size, m_PID>>

\* decodeField_String(Iter, MaxBytes) on the buffer, the MaxBytes bytes from
\* the cursor on being in the vector; the call returns
DecodeStringOn(Iter, MaxBytes) ==
    /\ Iter + U32ToNat(MaxBytes) <= Len(m_data)
    /\ lastOp' = "decodeField_String"
    /\ \E val \in Resolved(decodeField_String(m_data, Iter, MaxBytes).val) :
          ret' = [val |-> val, old |-> ThisPacket,
                  Iter |-> decodeField_String(m_data, Iter, MaxBytes).Iter,
                  MaxBytes |-> decodeField_String(m_data, Iter, MaxBytes).MaxBytes,
                  reads |-> decodeField_String_Reads(m_data, Iter, MaxBytes),
                  Iter0 |-> Iter, MaxBytes0 |-> MaxBytes]
    /\ UNCHANGED packetVars

\* the same call when its reads leave the vector and fault
DecodeStringFaults(Iter, MaxBytes) ==
    /\ Iter + U32ToNat(MaxBytes) <= Len(m_data)
    /\ OutOfBounds \in Range(decodeField_String(m_data, Iter, MaxBytes).val)
    /\ lastOp' = "Fault"
    /\ ret' = [in |-> "decodeField_String", Iter0 |-> Iter, MaxBytes0 |-> MaxBytes]
    /\ UNCHANGED packetVars

\* decodeField_Image(Iter, MaxBytes) on the buffer, the MaxBytes bytes from
\* the cursor on being in the vector
DecodeImageOn(Iter, MaxBytes) ==
    /\ Iter + U32ToNat(MaxBytes) <= Len(m_data)
    /\ lastOp' = "decodeField_Image"
    /\ ret' = [val |-> decodeField_Image(m_data, Iter, MaxBytes).val, old |-> ThisPacket,
               Iter |-> decodeField_Image(m_data, Iter, MaxBytes).Iter,
               MaxBytes |-> decodeField_Image(m_data, Iter, MaxBytes).MaxBytes,
               Iter0 |-> Iter, MaxBytes0 |-> MaxBytes]
    /\ UNCHANGED packetVars

\* the same call when its size has wrapped: the allocation of the image
\* fails or the reads beyond the vector fault
DecodeImageFaults(Iter, MaxBytes) ==
    /\ Iter + U32ToNat(MaxBytes) <= Len(m_data)
    /\ decodeField_Image(m_data, Iter, MaxBytes).Iter = FarBeyond
    /\ lastOp' = "Fault"
    /\ ret' = [in |-> "decodeField_Image", Iter0 |-> Iter, MaxBytes0 |-> MaxBytes]
    /\ UNCHANGED packetVars

NextWire ==
    \/ CheckHashOn /\ UNCHANGED <<loopVars, engineVars>>
    \/ \E target \in Receivers : DeserializeFrom(target) /\ UNCHANGED <<loopVars, engineVars>>
    \/ \E target \in Receivers : DeserializeFaults(target) /\ UNCHANGED <<loopVars, engineVars>>
    \/ \E Iter \in Cursors, MaxBytes \in Budgets :
          DecodeStringOn(Iter, MaxBytes) /\ UNCHANGED <<loopVars, engineVars>>
    \/ \E Iter \in Cursors, MaxBytes \in Budgets :
          DecodeStringFaults(Iter, MaxBytes) /\ UNCHANGED <<loopVars, engineVars>>
    \/ \E Iter \in Cursors, MaxBytes \in Budgets :
          DecodeImageOn(Iter, MaxBytes) /\ UNCHANGED <<loopVars, engineVars>>
    \/ \E Iter \in Cursors, MaxBytes \in Budgets :
          DecodeImageFaults(Iter, MaxBytes) /\ UNCHANGED <<loopVars, engineVars>>
    \/ \E PID \in PIDs : CheckHashSizeAndPIDOn(PID) /\ UNCHANGED <<loopVars, engineVars>>
    \/ AddHashOn /\ UNCHANGED <<loopVars, engineVars>>

SpecWire == InitWire /\ [][NextWire]_vars

(***************************************************************************)
(* SpecField: the field codec on its own.  A sender appends fields to a    *)
(* buffer that holds the bytes of junk already and may close it with       *)
(* AddHash, as every Serialize does; a receiver decodes fields at any      *)
(* cursor of the buffer.  sent is the list of the fields appended; pc is   *)
(* "open" until AddHash has closed the buffer.                             *)
(***************************************************************************)
\* the most fields the sender appends
MaxFields == 1

IntTypes == {"uint8", "uint16", "uint32", "uint64", "int8", "int16", "int32", "int64"}

\* bytes of a field of the type
Width(type) ==
    CASE type \in {"uint8", "int8"}   -> 1
      [] type \in {"uint16", "int16"} -> 2
      [] type \in {"uint32", "int32"} -> 4
      [] type \in {"uint64", "int64"} -> 8

\* INT32_MIN
MinInt32 == (-32768) * 65536

\* values of each type: the least, the greatest, some between
IntValues(type) ==
    CASE type = "uint8"  -> {0, 218, 255}
      [] type = "uint16" -> {0, 258, 55975, 65535}
      [] type = "uint32" -> {U32(0, 0), U32(55975, 258), U32(65535, 65535)}
      [] type = "uint64" -> {<<0, 0, 0, 0>>, <<32768, 0, 0, 258>>,
                             <<65535, 65535, 65535, 65535>>}
      [] type = "int8"   -> {-128, -1, 0, 127}
      [] type = "int16"  -> {-32768, -2, 258, 32767}
      [] type = "int32"  -> {MinInt32, -1, 65536, 2147483647}
      [] type = "int64"  -> {[hi |-> MinInt32, lo |-> U32(0, 0)],
                             [hi |-> -1, lo |-> U32(65535, 65535)],
                             [hi |-> 0, lo |-> U32(32768, 0)],
                             [hi |-> 2147483647, lo |-> U32(65535, 65535)]}

\* encodeField_<type>(Buffer, x)
encodeField(type, Buffer, x) ==
    CASE type = "uint8"  -> encodeField_uint8(Buffer, x)
      [] type = "uint16" -> encodeField_uint16(Buffer, x)
      [] type = "uint32" -> encodeField_uint32(Buffer, x)
      [] type = "uint64" -> encodeField_uint64(Buffer, x)
      [] type = "int8"   -> encodeField_int8(Buffer, x)
      [] type = "int16"  -> encodeField_int16(Buffer, x)
      [] type = "int32"  -> encodeField_int32(Buffer, x)
      [] type = "int64"  -> encodeField_int64(Buffer, x)
      [] type = "String" -> encodeField_String(Buffer, x)
      [] type = "Image"  -> encodeField_Image(Buffer, x)

\* decodeField_<type>(Iter)
decodeField(type, data, Iter) ==
    CASE type = "uint8"  -> decodeField_uint8(data, Iter)
      [] type = "uint16" -> decodeField_uint16(data, Iter)
      [] type = "uint32" -> decodeField_uint32(data, Iter)
      [] type = "uint64" -> decodeField_uint64(data, Iter)
      [] type = "int8"   -> decodeField_int8(data, Iter)
      [] type = "int16"  -> decodeField_int16(data, Iter)
      [] type = "int32"  -> decodeField_int32(data, Iter)
      [] type = "int64"  -> decodeField_int64(data, Iter)

InitField ==
    /\ m_data \in {<<>>, <<218, 167>>}
    /\ junk = m_data
    /\ M_highLevelFieldsValid = FALSE
    /\ m_size = NoHeader
    /\ m_PID = NoHeader
    /\ lastOp = "Init"
    /\ ret = [val |-> FALSE]
    /\ InitEngine(0)
    /\ wire = <<>>
    /\ pc = "open"
    /\ delivered = <<>>
    /\ sent = <<>>

\* encodeField_<type>(m_data, x)
EncodeField(type, x) ==
    /\ pc = "open"
    /\ Len(sent) < MaxFields
    /\ m_data' = encodeField(type, m_data, x)
    /\ sent' = Append(sent, [type |-> type, x |-> x])
    /\ lastOp' = "encodeField"
    /\ ret' = [type |-> type, x |-> x, old |-> ThisPacket]
    /\ UNCHANGED <<M_highLevelFieldsValid, m_size, m_PID, wire, pc, delivered, junk, engineVars>>

\* decodeField_<type>(Iter) for an integer type, the bytes of the field
\* being in the vector
DecodeField(type, Iter) ==
    /\ Iter + Width(type) <= Len(m_data)
    /\ lastOp' = "decodeField"
    /\ ret' = [type |-> type,
               val |-> decodeField(type, m_data, Iter).val,
               Iter |-> decodeField(type, m_data, Iter).Iter,
               Iter0 |-> Iter,
               old |-> ThisPacket]
    /\ UNCHANGED packetVars
    /\ UNCHANGED <<loopVars, engineVars>>

NextField ==
    \/ \E type \in IntTypes : \E x \in IntValues(type) : EncodeField(type, x)
    \/ \E x \in Strings : EncodeField("String", x)
    \/ \E x \in Frames : EncodeField("Image", x)
    \/ \E type \in IntTypes, Iter \in {0, Len(junk)} : DecodeField(type, Iter)
    \/ \E Iter \in {0, Len(junk)}, MaxBytes \in Budgets :
          DecodeStringOn(Iter, MaxBytes) /\ UNCHANGED <<loopVars, engineVars>>
    \/ \E Iter \in {0, Len(junk)}, MaxBytes \in Budgets :
          DecodeStringFaults(Iter, MaxBytes) /\ UNCHANGED <<loopVars, engineVars>>
    \/ \E Iter \in {0, Len(junk)}, MaxBytes \in Budgets :
          DecodeImageOn(Iter, MaxBytes) /\ UNCHANGED <<loopVars, engineVars>>
    \/ pc = "open" /\ AddHashOn /\ pc' = "closed" /\ UNCHANGED <<wire, delivered, sent, junk, engineVars>>

SpecField == InitField /\ [][NextField]_vars

(***************************************************************************)
(* Properties of ForwardScanForSync, IsFinished and the header cache,      *)
(* checked under Spec.                                                     *)
(***************************************************************************)
\* the 0-based indices i >= 1 of data at which the pair 218, 167 stands
SyncAt(data) ==
    {i \in 1..(Len(data) - 2) : data[i + 1] = 218 /\ data[i + 2] = 167}

\* C6: ForwardScanForSync leaves m_data at least one byte shorter than it
\* found it, unless it found it empty, and then it leaves it empty.
C6_ScanShrinks ==
    lastOp = "ForwardScanForSync" =>
        IF ret.old.m_data = <<>> THEN m_data = <<>>
        ELSE Len(m_data) < Len(ret.old.m_data)

\* C6 happens: a scan of a buffer that began with the sync marker kept some
\* of its bytes
C6_Witness ==
    /\ lastOp = "ForwardScanForSync"
    /\ Len(ret.old.m_data) >= 3
    /\ ret.old.m_data[1] = 218 /\ ret.old.m_data[2] = 167
    /\ m_data # <<>>

\* C7: when 218, 167 stands at some index i >= 1 of the buffer (the last two
\* bytes included), ForwardScanForSync leaves exactly the bytes from the
\* smallest such i on, in order, and the header cache invalid; a pair at
\* index 0 is not the match.
C7_ScanKeepsFromFirstSync ==
    (lastOp = "ForwardScanForSync" /\ SyncAt(ret.old.m_data) # {}) =>
        \E i \in SyncAt(ret.old.m_data) :
            /\ \A j \in SyncAt(ret.old.m_data) : i <= j
            /\ m_data = [k \in 1..(Len(ret.old.m_data) - i) |-> ret.old.m_data[i + k]]
            /\ ~M_highLevelFieldsValid

\* C7 happens: the buffer began with the marker, held it again further on
\* and once more in its last two bytes, and its header was cached
C7_Witness ==
    /\ lastOp = "ForwardScanForSync"
    /\ ret.old.M_highLevelFieldsValid
    /\ ret.old.m_data[1] = 218 /\ ret.old.m_data[2] = 167
    /\ Cardinality(SyncAt(ret.old.m_data)) >= 2
    /\ Len(ret.old.m_data) - 2 \in SyncAt(ret.old.m_data)
    /\ Len(m_data) > 2

\* C8 as stated: with no marker at any index >= 1, a buffer whose last byte
\* is 218 becomes that one byte, whatever its length (the buffer <<218>>
\* too), any other buffer is cleared, and the header cache is invalid.
C8_AsStated ==
    (lastOp = "ForwardScanForSync" /\ ret.old.m_data # <<>>
        /\ SyncAt(ret.old.m_data) = {}) =>
        /\ IF ret.old.m_data[Len(ret.old.m_data)] = 218
           THEN m_data = <<218>> ELSE m_data = <<>>
        /\ ~M_highLevelFieldsValid

\* C8, amended: with no marker at any index >= 1, a buffer of two or more
\* bytes whose last byte is 218 becomes that one byte; any other buffer, the
\* one-byte buffer <<218>> included, is cleared; the header cache is invalid.
C8_ScanWithoutSync ==
    (lastOp = "ForwardScanForSync" /\ SyncAt(ret.old.m_data) = {}) =>
        /\ IF Len(ret.old.m_data) > 1 /\ ret.old.m_data[Len(ret.old.m_data)] = 218
           THEN m_data = <<218>> ELSE m_data = <<>>
        /\ ~M_highLevelFieldsValid

\* C8 happens: the scan of the one-byte buffer <<218>> cleared it
C8_Witness ==
    /\ lastOp = "ForwardScanForSync"
    /\ ret.old.m_data = <<218>>
    /\ m_data = <<>>

\* C8's other cases happen: a longer buffer ending in 218 with its header
\* cached became <<218>>
C8_WitnessKept ==
    /\ lastOp = "ForwardScanForSync"
    /\ ret.old.M_highLevelFieldsValid
    /\ SyncAt(ret.old.m_data) = {}
    /\ m_data = <<218>>

\* C9 as stated: in every state M_highLevelFieldsValid is true if and only
\* if m_data holds at least 7 bytes, and it is false after Clear,
\* ForwardScanForSync and Serialize.
C9_AsStated ==
    /\ M_highLevelFieldsValid <=> Len(m_data) >= 7
    /\ lastOp \in {"Clear", "ForwardScanForSync", "Serialize"} => ~M_highLevelFieldsValid

\* C9, amended: M_highLevelFieldsValid is true only if m_data holds at least
\* 7 bytes, and then m_size and m_PID are what bytes 2-5 and 6 of m_data
\* decode to; right after IsFinished or BytesNeeded it is true if and only
\* if m_data holds at least 7 bytes; it is false after Clear, after
\* Serialize and after a ForwardScanForSync of a non-empty buffer.
C9_HeaderCache ==
    /\ M_highLevelFieldsValid =>
          /\ Len(m_data) >= 7
          /\ m_size = U32(m_data[3] * 256 + m_data[4], m_data[5] * 256 + m_data[6])
          /\ m_PID = m_data[7]
    /\ lastOp \in {"IsFinished", "BytesNeeded"} =>
          (M_highLevelFieldsValid <=> Len(m_data) >= 7)
    /\ lastOp \in {"Clear", "ForwardScanForSync", "Serialize"} => ~M_highLevelFieldsValid

\* C9 happens: the seventh byte was appended and nothing has cached the
\* header yet
C9_Witness ==
    /\ lastOp = "Append"
    /\ Len(m_data) >= 7
    /\ ~M_highLevelFieldsValid

\* C9's other cases happen: a scan discarded the head of a buffer whose
\* header was cached and kept some bytes
C9_WitnessDiscard ==
    /\ lastOp = "ForwardScanForSync"
    /\ ret.old.M_highLevelFieldsValid
    /\ m_data # <<>>
    /\ ~M_highLevelFieldsValid

\* C10: IsFinished on fewer than 7 bytes returns false and leaves the cache
\* as it was; on 7 or more it leaves the cache valid, holding the big-endian
\* size of bytes 2-5 and the PID of byte 6 when it was not valid before and
\* what it held when it was, and returns true exactly when m_data.size() is
\* at least the cached size.
C10_IsFinished ==
    lastOp = "IsFinished" =>
        /\ m_data = ret.old.m_data
        /\ IF Len(m_data) < 7
           THEN ~ret.val /\ ThisPacket = ret.old
           ELSE /\ M_highLevelFieldsValid
                /\ IF ret.old.M_highLevelFieldsValid
                   THEN m_size = ret.old.m_size /\ m_PID = ret.old.m_PID
                   ELSE /\ m_size = U32(m_data[3] * 256 + m_data[4],
                                        m_data[5] * 256 + m_data[6])
                        /\ m_PID = m_data[7]
                /\ ret.val <=> (m_size.hi = 0 /\ m_size.lo <= Len(m_data))

\* C10 happens: IsFinished cached a header that advertises exactly the 7
\* bytes present and returned true
C10_Witness ==
    /\ lastOp = "IsFinished"
    /\ ~ret.old.M_highLevelFieldsValid
    /\ Len(m_data) = 7
    /\ m_size = U32(0, 7)
    /\ ret.val

\* C10's other cases happen: IsFinished on a header already cached returned
\* false
C10_WitnessCached ==
    /\ lastOp = "IsFinished"
    /\ ret.old.M_highLevelFieldsValid
    /\ ~ret.val

\* C11: BytesNeeded on fewer than 7 bytes returns false and leaves ByteCount
\* as it was; otherwise it returns true with ByteCount the advertised size
\* minus the buffer length, which is never larger than the advertised size,
\* also when the buffer already holds more bytes than advertised.
C11_BytesNeeded ==
    lastOp = "BytesNeeded" =>
        IF Len(ret.old.m_data) < 7
        THEN ~ret.val /\ ret.ByteCount = ret.ByteCount0
        ELSE /\ ret.val
             /\ U32Add(ret.ByteCount, U32OfNat(Len(m_data))) = m_size
             /\ ~U32Less(m_size, ret.ByteCount)

(***************************************************************************)
(* Properties of Serialize and Deserialize, checked under SpecCodec.       *)
(***************************************************************************)
NonImageVariants ==
    {"CoreTelemetry", "ExtendedTelemetry", "Acknowledgment", "MessageString",
     "EmergencyCommand", "CameraControl", "VirtualStickCommand", "ExecuteWaypointMission"}

\* Deserialize has just been called on an object of m's own variant with
\* the packet Serialize(m) left
RoundTripOf(m) ==
    /\ lastOp = "Deserialize"
    /\ sent = <<m>>
    /\ ret.target.variant = m.variant

\* C1: for every message m of a non-image variant (Waypoints with NaN
\* LoiterTime/GimbalPitch included), Deserialize on the packet Serialize(m)
\* left returns true and the decoded message compares equal to m.
C1_RoundTripExact ==
    \A m \in {x \in Messages : x.variant \in NonImageVariants} :
        RoundTripOf(m) => ret.val /\ MsgEq(ret.msg, m)

\* the generic layout: sync marker, big-endian total length equal to the
\* size of data, PID, payload, the two checksum bytes
GenericLayout(data, PID) ==
    /\ Len(data) >= 9
    /\ data[1] = 218 /\ data[2] = 167
    /\ data[3] = 0 /\ data[4] = 0 /\ data[5] * 256 + data[6] = Len(data)
    /\ data[7] = PID
    /\ data[Len(data) - 1] = HashOf(data, Len(data) - 2).A
    /\ data[Len(data)] = HashOf(data, Len(data) - 2).B

\* C2: for every message of every variant (a default-constructed
\* Packet_Image included) the packet Serialize leaves follows the generic
\* layout, CheckHashSizeAndPID with the variant's PID returns true on it and
\* IsFinished returns true on it.
C2_SerializeLayout ==
    lastOp = "Serialize" =>
        /\ GenericLayout(m_data, PIDOf(ret.msg.variant))
        /\ CheckHashSizeAndPID(m_data, PIDOf(ret.msg.variant))
        /\ Packet_IsFinished(ThisPacket).ret

(***************************************************************************)
(* Properties of the receiver, checked under SpecRecv.                     *)
(***************************************************************************)
\* what Deserialize gives for the packet Serialize(m) put alone into an
\* empty Packet, for each object of m's variant the receiver may hold
DecodedAlone(m) ==
    {[ret |-> Deserialize(target, Serialize(m)).ret,
      msg |-> Deserialize(target, Serialize(m)).msg] :
        target \in {t \in Receivers : t.variant = m.variant}}

\* the packet of m is valid
ValidPacket(m) == CheckHash(Serialize(m))

\* the receiver has taken the whole wire and is waiting for more
Drained == pc = "recv" /\ wire = <<>>

\* one valid packet alone on the wire
OnePacket == junk = <<>> /\ Len(sent) = 1 /\ ValidPacket(sent[1])

\* C3: for a valid packet P of length L appended in consecutive chunks of
\* any sizes with IsFinished after each append, IsFinished returns false
\* while fewer than L bytes have been appended and true once L have, and the
\* message decoded from the completed buffer is the one decoded when P is
\* appended in one piece, whatever the splitting.
C3_ChunkingInvariance ==
    OnePacket =>
        /\ lastOp = "IsFinished" =>
              /\ m_data = SubSeq(Serialize(sent[1]), 1, Len(m_data))
              /\ Len(m_data) + Len(wire) = Len(Serialize(sent[1]))
              /\ ret.val <=> Len(m_data) = Len(Serialize(sent[1]))
        /\ pc = "validate" => m_data = Serialize(sent[1])
        /\ pc # "scan"
        /\ Drained =>
              \A d \in DecodedAlone(sent[1]) : d.ret /\ delivered = <<d>>

\* C3 happens: IsFinished returned true on the completed buffer of a packet
\* that arrived in several chunks, an earlier IsFinished having cached its
\* header
C3_Witness ==
    /\ OnePacket
    /\ lastOp = "IsFinished"
    /\ ret.val
    /\ ret.old.M_highLevelFieldsValid
    /\ wire = <<>>

\* C3's decoding happens: the packet has been decoded and the Packet cleared
C3_WitnessDecoded ==
    /\ OnePacket
    /\ Drained
    /\ Len(delivered) = 1
    /\ lastOp = "Clear"

\* C3's chunkings happen: IsFinished returned false on a buffer that ends
\* inside the header, and on one that lacks only the last byte
C3_WitnessPartial ==
    /\ OnePacket
    /\ lastOp = "IsFinished"
    /\ ~ret.val
    /\ Len(wire) = 1
    /\ M_highLevelFieldsValid

\* junk without the pair 218, 167 ahead of one valid packet
JunkThenPacket == junk # <<>> /\ SyncAt(<<0>> \o junk) = {} /\ ValidPacket(sent[1])

\* C4: with a non-empty junk prefix that holds no pair 218, 167 ahead of a
\* valid packet in the buffer, one ForwardScanForSync and then IsFinished,
\* CheckHash and Deserialize give the message that the packet alone in an
\* empty Packet gives.
C4_Resync ==
    JunkThenPacket =>
        /\ pc \in {"check", "validate", "dispatch"} => m_data = Serialize(sent[1])
        /\ pc # "scan"
        /\ pc = "recv" => \A d \in DecodedAlone(sent[1]) : d.ret /\ delivered = <<d>>

\* C4 happens: the scan has run and the packet behind the junk has been
\* decoded
C4_Witness ==
    /\ JunkThenPacket
    /\ pc = "recv"
    /\ Len(delivered) = 1

\* C4's stale cache happens: the scan ran on a buffer whose first 7 bytes,
\* junk among them, had been cached as its header
C4_WitnessCached ==
    /\ JunkThenPacket
    /\ lastOp = "ForwardScanForSync"
    /\ ret.old.M_highLevelFieldsValid
    /\ pc = "check"

\* C5: for a stream of valid packets back to back and every chunking of it,
\* the receive loop delivers every packet's message, in order: once the
\* stream is drained, delivered holds the decoded message of each packet.
C5_LoopDeliversAll ==
    (junk = <<>> /\ (\A i \in 1..Len(sent) : ValidPacket(sent[i])) /\ Drained) =>
        /\ Len(delivered) = Len(sent)
        /\ \A i \in 1..Len(sent) : delivered[i] \in DecodedAlone(sent[i])

(***************************************************************************)
(* Properties of the checksum and of validation, checked under SpecWire.   *)
(***************************************************************************)
\* the two-stage running sum of the bytes n .. Len(data) of data on top of
\* hashA, hashB: A += byte, B += A, both modulo 256
RECURSIVE RunningSum(_, _, _, _)
RunningSum(data, n, hashA, hashB) ==
    IF n > Len(data) THEN <<hashA, hashB>>
    ELSE RunningSum(data, n + 1, (hashA + data[n]) % 256,
                    (hashB + hashA + data[n]) % 256)

\* data holds at least 9 bytes, its size field is its length, and its last
\* two bytes are the running sum of the bytes before them
WellFormed(data) ==
    /\ Len(data) >= 9
    /\ data[3] = 0 /\ data[4] = 0 /\ data[5] * 256 + data[6] = Len(data)
    /\ RunningSum(SubSeq(data, 1, Len(data) - 2), 1, 0, 0)
          = <<data[Len(data) - 1], data[Len(data)]>>

C12_WitnessExtension ==
    /\ lastOp = "CheckHash"
    /\ \E P \in WirePackets : m_data \in Extensions(P)
    /\ ~ret.val

\* C13: CheckHashSizeAndPID(PID) returns true if and only if CheckHash does
\* and byte 6 of the buffer is PID; it dereferences no offset outside the
\* buffer, and none at all in a buffer of fewer than 9 bytes.
C13_CheckHashSizeAndPID ==
    (lastOp = "CheckHashSizeAndPID" /\ Len(m_data) <= 40) =>
        /\ ret.val <=> (WellFormed(m_data) /\ m_data[7] = ret.PID)
        /\ CheckHashSizeAndPID_Reads(m_data) \subseteq 0..(Len(m_data) - 1)
        /\ Len(m_data) < 9 => CheckHashSizeAndPID_Reads(m_data) = {}
        /\ ThisPacket = ret.old

\* C13 happens: a valid packet was refused for its PID alone
C13_Witness ==
    /\ lastOp = "CheckHashSizeAndPID"
    /\ CheckHash(m_data)
    /\ m_data[7] # ret.PID
    /\ ~ret.val

\* C13's other cases happen: a buffer of 7 or 8 bytes whose byte 6 is the
\* PID asked for was refused, and a valid packet was accepted
C13_WitnessShort ==
    /\ lastOp = "CheckHashSizeAndPID"
    /\ Len(m_data) \in {7, 8}
    /\ m_data[7] = ret.PID
    /\ ~ret.val

\* C15: AddHash appends two bytes, A then B, the running sum (A += byte,
\* B += A, modulo 256, from 0) of the bytes present before the call, and
\* leaves those bytes as they were; for 0, 1, 2 it appends 3, 4.
C15_AddHash ==
    lastOp = "AddHash" =>
        /\ m_data = ret.old.m_data \o RunningSum(ret.old.m_data, 1, 0, 0)
        /\ ret.old.m_data = <<0, 1, 2>> => m_data = <<0, 1, 2, 3, 4>>

\* C15 happens: AddHash on the bytes 0, 1, 2
C15_Witness ==
    /\ lastOp = "AddHash"
    /\ ret.old.m_data = <<0, 1, 2>>
    /\ Len(m_data) = 5

\* C15's wraparound happens: the sum of the bytes before the call exceeds
\* 255
C15_WitnessWrap ==
    /\ lastOp = "AddHash"
    /\ Len(ret.old.m_data) >= 2
    /\ ret.old.m_data[1] + ret.old.m_data[2] > 255

(***************************************************************************)
(* Properties of the type identifiers and of the deferred size, checked    *)
(* under SpecCodec.                                                        *)
(***************************************************************************)
\* C14: the ten variants have ten different PIDs, 0, 1, 2, 3, 4, 5, 252,
\* 253, 254, 255; Serialize of a variant writes its PID and Deserialize of
\* the variant accepts it; Deserialize of a variant Y on the packet that
\* Serialize of another variant X left returns false and leaves the object
\* it was called on as it was.
C14_TypeMismatch ==
    /\ PIDs = {0, 1, 2, 3, 4, 5, 252, 253, 254, 255}
    /\ Cardinality(PIDs) = Cardinality(Variants)
    /\ lastOp = "Serialize" => m_data[7] = PIDOf(ret.msg.variant)
    /\ (lastOp = "Deserialize" /\ sent # <<>>) =>
          IF ret.target.variant # sent[1].variant
          THEN ~ret.val /\ ret.msg = ret.target
          ELSE (CheckHash(m_data) /\ sent[1].variant # "ExecuteWaypointMission")
                  => ret.val

\* C14 happens: Deserialize of CameraControl was called on the packet of a
\* MessageString, which has the length of a CameraControl packet
C14_Witness ==
    /\ lastOp = "Deserialize"
    /\ sent # <<>>
    /\ sent[1].variant = "MessageString"
    /\ ret.target.variant = "CameraControl"
    /\ Len(m_data) = 14
    /\ ~ret.val

\* C16: after Packet_CompressedImage::Serialize the big-endian value of bytes
\* 2-5 is the length of the packet, header, TargetFPS, image bytes and the
\* two checksum bytes together, also when there are no image bytes, and the
\* checksum is the running sum over the bytes with the size in place.
C16_DeferredSize ==
    (lastOp = "Serialize" /\ ret.msg.variant = "CompressedImage") =>
        /\ m_data[3] = 0 /\ m_data[4] = 0
        /\ m_data[5] * 256 + m_data[6] = Len(m_data)
        /\ Len(m_data) = 7 + 4 + Len(encodeField_CompressedImage(<<>>, ret.msg.Frame)) + 2
        /\ WellFormed(m_data)
        /\ CheckHashSizeAndPID(m_data, 5)

\* C16 happens: a CompressedImage with image bytes has been serialized
C16_Witness ==
    /\ lastOp = "Serialize"
    /\ ret.msg.variant = "CompressedImage"
    /\ Len(m_data) > 13

\* C16's empty payload happens: the Frame was not an 8-bit 3-channel image
\* and no image bytes were written
C16_WitnessEmpty ==
    /\ lastOp = "Serialize"
    /\ ret.msg.variant = "CompressedImage"
    /\ Len(m_data) = 13

(***************************************************************************)
(* Properties of the bounded decoders, checked under SpecWire.             *)
(***************************************************************************)
\* x + 4 as a count, without wraparound
Plus4(x) == U32(x.hi + (x.lo + 4) \div 65536, (x.lo + 4) % 65536)

\* the length the String field at the cursor of entry declares
DeclaredLength == decodeField_uint32(ret.old.m_data, ret.Iter0).val

\* the bytes the Image field at the cursor of entry declares, its 4 bytes of
\* rows and cols included, in the decoder's 32-bit arithmetic
DeclaredImageBytes ==
    LET rows == decodeField_uint16(ret.old.m_data, ret.Iter0).val
        cols == decodeField_uint16(ret.old.m_data, ret.Iter0 + 2).val
        rc == U32MulU16(rows, cols)
    IN  U32Add(U32Add(U32Add(rc, rc), rc), U32OfNat(4))

\* C17: for every budget MaxBytes and every declared length, those near 2^32
\* included, a String whose declared length plus 4 exceeds MaxBytes decodes
\* to the empty string, and decodeField_String dereferences no byte beyond
\* the MaxBytes bytes from the cursor on.
C17_StringBounds ==
    lastOp = "decodeField_String" =>
        /\ (U32Less(ret.MaxBytes0, U32OfNat(4))
               \/ U32Less(ret.MaxBytes0, Plus4(DeclaredLength))) => ret.val = <<>>
        /\ ~U32Less(ret.MaxBytes0, ret.reads)

\* C18: when decodeField_String or decodeField_Image aborts, the budget
\* being below 4 or the declared size plus the prefix above the budget, the
\* cursor has advanced by exactly the budget of entry, MaxBytes is 0 and the
\* value returned is empty.
C18_AbortConsumesBudget ==
    /\ (lastOp = "decodeField_String"
          /\ (U32Less(ret.MaxBytes0, U32OfNat(4))
                 \/ U32Less(ret.MaxBytes0, U32Add(DeclaredLength, U32OfNat(4))))) =>
          /\ ret.Iter = ret.Iter0 + U32ToNat(ret.MaxBytes0)
          /\ ret.MaxBytes = U32OfNat(0)
          /\ ret.val = <<>>
    /\ (lastOp = "decodeField_Image"
          /\ (U32Less(ret.MaxBytes0, U32OfNat(4))
                 \/ U32Less(ret.MaxBytes0, DeclaredImageBytes))) =>
          /\ ret.Iter = ret.Iter0 + U32ToNat(ret.MaxBytes0)
          /\ ret.MaxBytes = U32OfNat(0)
          /\ ret.val = Mat(0, 0, "CV_8UC3", <<>>)

(***************************************************************************)
(* Properties of Deserialize on packets off the wire, checked under        *)
(* SpecWire.                                                               *)
(***************************************************************************)
\* the byte offset of the variable-length field in a packet of the variant
FieldOffset(variant) ==
    CASE variant = "MessageString"     -> 8
      [] variant = "ExtendedTelemetry" -> 19
      [] variant = "Image"             -> 11

\* the String or Image field of the packet declares more bytes, its prefix
\* included, than the packet has between the field and the checksum
InnerOverrun(variant, data) ==
    LET Iter == FieldOffset(variant)
        room == Len(data) - 2 - Iter
    IN  /\ room >= 4
        /\ IF variant = "Image"
           THEN room < 4 + 3 * decodeField_uint16(data, Iter).val
                                 * decodeField_uint16(data, Iter + 2).val
           ELSE U32Less(U32OfNat(room), Plus4(decodeField_uint32(data, Iter).val))

\* C19: Deserialize of MessageString, ExtendedTelemetry or Image returns
\* false on a packet of its PID with a good checksum whose String or Image
\* field declares an inner size that overruns the packet.
C19_OverrunFails ==
    (/\ lastOp = "Deserialize"
     /\ ret.target.variant \in {"MessageString", "ExtendedTelemetry", "Image"}
     /\ CheckHashSizeAndPID(ret.old.m_data, PIDOf(ret.target.variant))
     /\ Len(ret.old.m_data) >= FieldOffset(ret.target.variant) + 6
     /\ InnerOverrun(ret.target.variant, ret.old.m_data))
        => ret.val = FALSE

\* waypoint i of the packet, decoded from its 40 bytes at offset 9 + 40 (i - 1)
WaypointAt(data, i) == decodeWaypoints(data, 9 + 40 * (i - 1), 1, 1)[1]

\* C20: Packet_ExecuteWaypointMission::Deserialize returns false on every
\* packet of PID 253 with a good checksum whose length less 11 is no
\* multiple of 40; when it returns true the mission holds (length - 11) / 40
\* waypoints, the i-th decoded from the i-th 40 bytes of the payload.
C20_MissionWaypoints ==
    (/\ lastOp = "Deserialize"
     /\ ret.target.variant = "ExecuteWaypointMission"
     /\ CheckHashSizeAndPID(ret.old.m_data, 253))
        => /\ (Len(ret.old.m_data) - 11) % 40 # 0 => ret.val = FALSE
           /\ ret.val = TRUE =>
                /\ Len(ret.msg.Waypoints) = (Len(ret.old.m_data) - 11) \div 40
                /\ \A i \in 1..Len(ret.msg.Waypoints) :
                       ret.msg.Waypoints[i] = WaypointAt(ret.old.m_data, i)

\* a mission packet with a byte too many or too few was refused
C20_Witness ==
    /\ lastOp = "Deserialize"
    /\ ret.target.variant = "ExecuteWaypointMission"
    /\ CheckHashSizeAndPID(ret.old.m_data, 253)
    /\ Len(ret.old.m_data) >= 51
    /\ (Len(ret.old.m_data) - 11) % 40 # 0
    /\ ret.val = FALSE

\* a mission packet of two different waypoints was decoded
C20_WitnessTwo ==
    /\ lastOp = "Deserialize"
    /\ ret.target.variant = "ExecuteWaypointMission"
    /\ ret.val = TRUE
    /\ Len(ret.msg.Waypoints) = 2
    /\ ret.msg.Waypoints[1] # ret.msg.Waypoints[2]

(***************************************************************************)
(* SpecValue: the functions on Waypoints and missions that touch no        *)
(* Packet, called on any values of the model: the two distances, and       *)
(* operator== of Waypoint, WaypointMission and                             *)
(* Packet_ExecuteWaypointMission.  The functions keep no state, so a       *)
(* behaviour is one call.                                                  *)
(***************************************************************************)
\* the WaypointMission values: a waypoint list with its two flags
WaypointMissions ==
    {[Waypoints |-> wps, LandAtLastWaypoint |-> l, CurvedTrajectory |-> c] :
        wps \in WaypointLists, l \in BOOLEAN, c \in BOOLEAN}

Distance2D(WPA, WPB) ==
    /\ lastOp = "Init"
    /\ lastOp' = "DistBetweenWaypoints2D"
    /\ ret' = [val |-> DistBetweenWaypoints2D(WPA, WPB), WPA |-> WPA, WPB |-> WPB]
    /\ UNCHANGED packetVars
    /\ UNCHANGED <<loopVars, engineVars>>

Distance3D(WPA, WPB) ==
    /\ lastOp = "Init"
    /\ lastOp' = "DistBetweenWaypoints3D"
    /\ ret' = [val |-> DistBetweenWaypoints3D(WPA, WPB), WPA |-> WPA, WPB |-> WPB]
    /\ UNCHANGED packetVars
    /\ UNCHANGED <<loopVars, engineVars>>

\* a == b on Waypoints
WaypointEquals(a, b) ==
    /\ lastOp = "Init"
    /\ lastOp' = "Waypoint::operator=="
    /\ ret' = [val |-> Waypoint_Eq(a, b), a |-> a, b |-> b]
    /\ UNCHANGED packetVars
    /\ UNCHANGED <<loopVars, engineVars>>

\* a == b on WaypointMissions
WaypointMissionEquals(a, b) ==
    /\ lastOp = "Init"
    /\ lastOp' = "WaypointMission::operator=="
    /\ ret' = [val |-> WaypointMission_Eq(a, b), a |-> a, b |-> b]
    /\ UNCHANGED packetVars
    /\ UNCHANGED <<loopVars, engineVars>>

\* a == b on Packet_ExecuteWaypointMission objects
MissionPacketEquals(a, b) ==
    /\ lastOp = "Init"
    /\ lastOp' = "Packet_ExecuteWaypointMission::operator=="
    /\ ret' = [val |-> Packet_ExecuteWaypointMission_Eq(a, b), a |-> a, b |-> b]
    /\ UNCHANGED packetVars
    /\ UNCHANGED <<loopVars, engineVars>>

NextValue ==
    \/ \E WPA \in GeoWaypoints, WPB \in GeoWaypoints : Distance2D(WPA, WPB)
    \/ \E WPA \in GeoWaypoints, WPB \in GeoWaypoints : Distance3D(WPA, WPB)
    \/ \E a \in WaypointValues \cup GeoWaypoints, b \in WaypointValues : WaypointEquals(a, b)
    \/ \E a \in WaypointMissions, b \in WaypointMissions : WaypointMissionEquals(a, b)
    \/ \E a \in ExecuteWaypointMissionMessages, b \in ExecuteWaypointMissionMessages :
          MissionPacketEquals(a, b)

SpecValue == Init /\ [][NextValue]_vars

(***************************************************************************)
(* SpecCorrupt: a message is serialized into the Packet, one byte of the   *)
(* packet is replaced by another value on its way, and CheckHash is called *)
(* on what arrives.                                                        *)
(***************************************************************************)
\* the messages serialized: the short ones of Spec and a mission of one
\* waypoint
CorruptedMessages ==
    FramingMessages
    \cup {m \in ExecuteWaypointMissionMessages :
              m.LandAtEnd = 1 /\ m.Waypoints = <<DefaultWaypoint>>}

\* the buffer with the byte at index i (from 0) replaced by v
Corrupted(data, i, v) == [data EXCEPT ![i + 1] = v]

SerializeFirst(m) ==
    /\ lastOp = "Init"
    /\ SerializeInto(m)
    /\ sent' = <<m>>
    /\ UNCHANGED <<wire, pc, delivered, junk, engineVars>>

CorruptByte(i, v) ==
    /\ lastOp = "Serialize"
    /\ i < Len(m_data)
    /\ v # m_data[i + 1]
    /\ m_data' = Corrupted(m_data, i, v)
    /\ lastOp' = "Corrupt"
    /\ ret' = [i |-> i, v |-> v, old |-> ThisPacket]
    /\ UNCHANGED <<M_highLevelFieldsValid, m_size, m_PID>>
    /\ UNCHANGED <<loopVars, engineVars>>

NextCorrupt ==
    \/ \E m \in CorruptedMessages : SerializeFirst(m)
    \/ \E i \in 0..(Len(m_data) - 1), v \in 0..255 : CorruptByte(i, v)
    \/ CheckHashOn /\ UNCHANGED <<loopVars, engineVars>>

SpecCorrupt == Init /\ [][NextCorrupt]_vars

(***************************************************************************)
(* Properties of the field codec, checked under SpecField.                 *)
(***************************************************************************)
\* the two and the four bytes of the two's complement pattern of a number,
\* most significant first
BigEndian2(n) == <<(n \div 256) % 256, n % 256>>

BigEndian4(n) == <<(n \div 16777216) % 256, (n \div 65536) % 256, (n \div 256) % 256, n % 256>>

\* the bytes of the value x of the type, most significant first
BigEndian(type, x) ==
    CASE type \in {"uint8", "int8"}   -> <<x % 256>>
      [] type \in {"uint16", "int16"} -> BigEndian2(x)
      [] type = "uint32" -> BigEndian2(x.hi) \o BigEndian2(x.lo)
      [] type = "int32"  -> BigEndian4(x)
      [] type = "uint64" -> BigEndian2(x[1]) \o BigEndian2(x[2]) \o BigEndian2(x[3])
                                \o BigEndian2(x[4])
      [] type = "int64"  -> BigEndian4(x.hi) \o BigEndian2(x.lo.hi) \o BigEndian2(x.lo.lo)

\* the receiver decodes, at the cursor where the sender began, a field of
\* the type the sender appended first
DecodesSent(op, type) ==
    /\ lastOp = op
    /\ Len(sent) >= 1
    /\ sent[1].type = type
    /\ ret.Iter0 = Len(junk)

\* C21: for each width 8, 16, 32, 64, signed or unsigned, encodeField
\* appends the w/8 bytes of the value, most significant first; decodeField
\* advances the cursor by w/8; decoding what was encoded gives the value.
C21_IntegerCodec ==
    /\ (lastOp = "encodeField" /\ ret.type \in IntTypes) =>
           /\ m_data = ret.old.m_data \o BigEndian(ret.type, ret.x)
           /\ Len(m_data) = Len(ret.old.m_data) + Width(ret.type)
    /\ lastOp = "decodeField" => ret.Iter = ret.Iter0 + Width(ret.type)
    /\ (lastOp = "decodeField" /\ DecodesSent("decodeField", ret.type)) =>
           ret.val = sent[1].x

\* a negative 64-bit value was decoded back
C21_Witness ==
    /\ DecodesSent("decodeField", "int64")
    /\ ret.type = "int64"
    /\ ret.val.hi < 0
    /\ ret.val = sent[1].x

\* a negative 8-bit value was decoded back
C21_WitnessByte ==
    /\ DecodesSent("decodeField", "int8")
    /\ ret.type = "int8"
    /\ ret.val = -1

\* C22: encodeField_String appends the length as 4 bytes, most significant
\* first, and then the bytes of the string; with a budget MaxBytes of at
\* least 4 + len(s), decodeField_String returns s, advances the cursor by
\* 4 + len(s) and lowers MaxBytes by 4 + len(s).
C22_StringCodec ==
    /\ (lastOp = "encodeField" /\ ret.type = "String") =>
           m_data = ret.old.m_data \o <<0, 0, 0, Len(ret.x)>> \o ret.x
    /\ (/\ DecodesSent("decodeField_String", "String")
        /\ U32ToNat(ret.MaxBytes0) >= 4 + Len(sent[1].x)) =>
           /\ ret.val = sent[1].x
           /\ ret.Iter = ret.Iter0 + 4 + Len(sent[1].x)
           /\ U32ToNat(ret.MaxBytes) = U32ToNat(ret.MaxBytes0) - (4 + Len(sent[1].x))

\* a string of two characters was decoded with a budget larger than it needs
C22_Witness ==
    /\ DecodesSent("decodeField_String", "String")
    /\ Len(sent[1].x) = 2
    /\ U32ToNat(ret.MaxBytes0) > 6
    /\ ret.val = sent[1].x
    /\ U32ToNat(ret.MaxBytes) > 0

\* byte i of the pixels on the wire, row-major, each pixel its channels
\* (2), (1), (0)
WirePixels(x) ==
    [i \in 1..(3 * Len(x.pix)) |-> x.pix[((i - 1) \div 3) + 1][3 - ((i - 1) % 3)]]

IsFinite32(x) == (x.hi \div 128) % 256 # 255

\* the float lies in the closed interval [-180, 180]: its magnitude, which
\* for floats orders as the bit pattern does, is at most that of 180.0f
InClosed180(x) ==
    /\ ~IsNaN32(x)
    /\ ~U32Less(U32(17204, 0), U32(x.hi % 32768, x.lo))

\* the float in units of 2^-16, rounded towards zero, for a float of
\* magnitude below 16384
Fixed16(x) ==
    LET e == (x.hi \div 128) % 256
        man == 8388608 + (x.hi % 128) * 65536 + x.lo
        mag == IF e = 0 \/ e < 104 THEN 0
               ELSE IF e >= 134 THEN man * 2^(e - 134)
               ELSE man \div 2^(134 - e)
    IN  IF x.hi >= 32768 THEN 0 - mag ELSE mag

\* the two floats, of magnitude below 16384, differ by a multiple of 360 up
\* to the rounding of float arithmetic at 360 (4 units of 2^-16)
Congruent360(a, b) ==
    LET d == (Fixed16(a) - Fixed16(b)) % (360 * 65536)
    IN  d <= 4 \/ d >= 360 * 65536 - 4

\* C24: for every finite Yaw of a Packet_VirtualStickCommand the yaw that
\* Serialize writes lies in [-180, 180] and is congruent modulo 360 to the
\* angle in degrees (the congruence is evaluated for angles below 16384
\* degrees).
C24_YawWrapped ==
    (/\ lastOp = "Serialize"
     /\ ret.msg.variant = "VirtualStickCommand"
     /\ IsFinite32(ret.msg.Yaw))
        => LET w == decodeField_float32(m_data, 8).val
               deg == DegOfRad32(ret.msg.Yaw)
           IN  /\ InClosed180(w)
               /\ (IsFinite32(deg) /\ (deg.hi \div 128) % 256 <= 140) => Congruent360(w, deg)

(***************************************************************************)
(* Properties of the Waypoint distances and of operator==, checked under   *)
(* SpecValue.                                                              *)
(***************************************************************************)
\* the two Waypoints of the call have equal latitudes and equal longitudes
SamePlace == FloatEq64(ret.WPA.Latitude, ret.WPB.Latitude)
                 /\ FloatEq64(ret.WPA.Longitude, ret.WPB.Longitude)

\* the difference of the relative altitudes as the code computes it
AltitudeGap == Fabs64(Sub64(ret.WPB.RelAltitude, ret.WPA.RelAltitude))

\* the square of the double is neither above the largest double nor below
\* the least normal one: the double is 0 or 2^-511 <= |d| < 2^512
SquareInRange(d) ==
    \/ IsZero64(d)
    \/ ((d[1] \div 16) % 2048 >= 512 /\ (d[1] \div 16) % 2048 <= 1534)

\* the distance of the call equals the distance with the arguments swapped
Symmetric ==
    /\ lastOp = "DistBetweenWaypoints2D" =>
           FloatEq64(ret.val, DistBetweenWaypoints2D(ret.WPB, ret.WPA))
    /\ lastOp = "DistBetweenWaypoints3D" =>
           FloatEq64(ret.val, DistBetweenWaypoints3D(ret.WPB, ret.WPA))

C25_WitnessApart ==
    /\ lastOp = "DistBetweenWaypoints2D"
    /\ ~SamePlace
    /\ ~IsZero64(ret.val)
    /\ ~IsNaN64(ret.val)
    /\ ret.val = DistBetweenWaypoints2D(ret.WPB, ret.WPA)

\* C28: every Waypoint, WaypointMission and Packet_ExecuteWaypointMission,
\* a default-constructed Waypoint with its NaN LoiterTime and GimbalPitch
\* included, compares equal under operator== to itself and to a copy of
\* itself.
C28_EqualityReflexive ==
    (/\ lastOp \in {"Waypoint::operator==", "WaypointMission::operator==",
                    "Packet_ExecuteWaypointMission::operator=="}
     /\ ret.a = ret.b)
        => ret.val = TRUE

(***************************************************************************)
(* Properties of Deserialize's failures, checked under SpecWire, and of    *)
(* the mission round trip, checked under SpecCodec.                        *)
(***************************************************************************)
\* C26: whenever Deserialize of any variant returns false, every field of
\* the object it was called on has the value it had before the call;
\* LandAtEnd, CurvedFlight and Waypoints of a mission are among them.
C26_FailureKeepsTarget ==
    (lastOp = "Deserialize" /\ ret.val = FALSE) => ret.msg = ret.target

\* C27: Serialize of a mission of N waypoints, N = 0 included, gives a
\* packet of 9 + 2 + 40 N bytes, and Deserialize of a mission accepts that
\* packet: it returns true and the object holds N waypoints and the
\* LandAtEnd and CurvedFlight that were serialized.
C27_MissionRoundTrip ==
    /\ (lastOp = "Serialize" /\ ret.msg.variant = "ExecuteWaypointMission") =>
           Len(m_data) = 9 + 2 + 40 * Len(ret.msg.Waypoints)
    /\ (/\ lastOp = "Deserialize"
        /\ sent # <<>>
        /\ sent[1].variant = "ExecuteWaypointMission"
        /\ ret.target.variant = "ExecuteWaypointMission") =>
           /\ ret.val = TRUE
           /\ Len(ret.msg.Waypoints) = Len(sent[1].Waypoints)
           /\ ret.msg.LandAtEnd = sent[1].LandAtEnd
           /\ ret.msg.CurvedFlight = sent[1].CurvedFlight

(***************************************************************************)
(* Properties of the checksum as a guard of the packet's bytes: C29 is     *)
(* checked under SpecWire, C30 under SpecCorrupt.                          *)
(***************************************************************************)
\* C29: every buffer CheckHash returns true for begins with the sync marker
\* 0xDA 0xA7; on a buffer that begins otherwise CheckHash returns false.
C29_ValidHasSync ==
    (lastOp = "CheckHash" /\ ret.val = TRUE) =>
        (m_data[1] = 218 /\ m_data[2] = 167)

\* the two buffers have one length and differ in exactly one byte
OneByteOff(data, P) ==
    /\ Len(data) = Len(P)
    /\ Cardinality({i \in 1..Len(P) : data[i] # P[i]}) = 1

\* C30: for every packet Serialize leaves, every index i of it and every
\* byte value other than the one at i, CheckHash returns false on the
\* packet with the byte at i replaced by that value.
C30_CorruptionDetected ==
    (/\ lastOp = "CheckHash"
     /\ sent # <<>>
     /\ OneByteOff(m_data, Serialize(sent[1])))
        => ret.val = FALSE

\* CheckHash has refused a packet with one byte of the payload replaced,
\* the replacement being one that leaves the second sum as it was
C30_Witness ==
    /\ lastOp = "CheckHash"
    /\ sent # <<>>
    /\ OneByteOff(m_data, Serialize(sent[1]))
    /\ m_data[8] # Serialize(sent[1])[8]
    /\ HashOf(m_data, Len(m_data) - 2).B = m_data[Len(m_data)]
    /\ ret.val = FALSE

\* CheckHash has accepted the packet as Serialize left it
C30_WitnessIntact ==
    /\ lastOp = "CheckHash"
    /\ sent # <<>>
    /\ m_data = Serialize(sent[1])
    /\ ret.val = TRUE

(***************************************************************************)
(* SpecCache: one Packet under Clear, byte appends, IsFinished,            *)
(* BytesNeeded, ForwardScanForSync and Serialize of every variant; bytes   *)
(* keep arriving behind a packet the header declares complete.             *)
(***************************************************************************)
\* at most this many bytes are appended behind a complete packet
MaxExtra == 2

\* a byte arrives behind the bytes the cached header declares complete
AppendBehind(b) ==
    /\ M_highLevelFieldsValid
    /\ SizeReached(Len(m_data), m_size)
    /\ Len(m_data) < U32ToNat(m_size) + MaxExtra
    /\ m_data' = Append(m_data, b)
    /\ lastOp' = "Append"
    /\ ret' = [val |-> TRUE, old |-> ThisPacket]
    /\ UNCHANGED <<M_highLevelFieldsValid, m_size, m_PID>>

\* the messages serialized into the Packet of SpecCache: those of Spec, the
\* CompressedImage messages, and one message of every variant
CacheMessages ==
    FramingMessages
    \cup CompressedImageMessages
    \cup {CHOOSE m \in Messages : m.variant = v : v \in Variants}

\* the bytes Serialize writes for each of them
SerializedBytes == [m \in CacheMessages |-> Serialize(m)]

\* Packet_X::Serialize(TargetPacket) on the Packet of the state
SerializeOver(m) ==
    /\ SetPacket([Packet_Clear(ThisPacket) EXCEPT !.m_data = SerializedBytes[m]])
    /\ lastOp' = "Serialize"
    /\ ret' = [msg |-> m]

NextCache ==
    \/ Clear /\ UNCHANGED <<loopVars, engineVars>>
    \/ \E b \in ByteAlphabet : AppendByte(b) /\ UNCHANGED <<loopVars, engineVars>>
    \/ \E b \in ByteAlphabet : AppendBehind(b) /\ UNCHANGED <<loopVars, engineVars>>
    \/ IsFinished /\ UNCHANGED <<loopVars, engineVars>>
    \/ \E ByteCount \in ByteCounts : BytesNeeded(ByteCount) /\ UNCHANGED <<loopVars, engineVars>>
    \/ ForwardScanForSync /\ UNCHANGED <<loopVars, engineVars>>
    \/ \E m \in CacheMessages : SerializeOver(m) /\ UNCHANGED <<loopVars, engineVars>>

SpecCache == Init /\ [][NextCache]_vars

(***************************************************************************)
(* Properties of the header cache, checked under SpecCache.                *)
(***************************************************************************)
\* C31: in every state reached by Clear, appends, IsFinished, BytesNeeded,
\* ForwardScanForSync and Serialize of any variant, when
\* M_highLevelFieldsValid is true the buffer holds 7 bytes or more, m_size is
\* the big-endian value of bytes 2-5 as they are now and m_PID is byte 6 as
\* GetPID returns it; and an append to a Packet IsFinished returns true for
\* leaves a Packet IsFinished returns true for.
C31_NoStaleCache ==
    /\ M_highLevelFieldsValid =>
           /\ Len(m_data) >= 7
           /\ m_size = decodeField_uint32(m_data, 2).val
           /\ GetPID(m_data).ret
           /\ m_PID = GetPID(m_data).PID
    /\ (lastOp = "Append" /\ "old" \in DOMAIN ret) =>
           (Packet_IsFinished(ret.old).ret => Packet_IsFinished(ThisPacket).ret)

\* the cache was filled, bytes arrived behind a CompressedImage packet, and
\* IsFinished returns true as before
C31_Witness ==
    /\ lastOp = "Append"
    /\ "old" \in DOMAIN ret
    /\ M_highLevelFieldsValid
    /\ m_PID = 5
    /\ Len(m_data) = U32ToNat(m_size) + 2
    /\ Packet_IsFinished(ret.old).ret
    /\ Packet_IsFinished(ThisPacket).ret

\* the cache was filled on seven appended bytes and a scan has left a
\* shorter buffer with the flag false
C31_WitnessScan ==
    /\ lastOp = "ForwardScanForSync"
    /\ ret.old.M_highLevelFieldsValid
    /\ m_data # <<>>
    /\ ~M_highLevelFieldsValid

(***************************************************************************)
(* SpecResync: the Packet holds what has arrived and no further byte       *)
(* arrives.  The receiver runs its loop: while IsFinished returns true and *)
(* CheckHash returns false it calls ForwardScanForSync.  The buffer of     *)
(* entry is kept in junk, and delivered is the log of the scans: the       *)
(* length of the buffer at each call.  The loop has ended when pc is       *)
(* "recv" (the receiver waits for bytes) or "dispatch" (CheckHash returned *)
(* true).                                                                  *)
(***************************************************************************)
\* what may follow the last packet in the buffer
Tails == {<<>>, <<218>>, <<0, 218, 167>>}

\* the buffers of entry: short packets, whole, cut short and with a byte
\* more, and streams of packets with bytes ahead of them and behind them
ResyncBuffers ==
    WirePackets
    \cup UNION {Prefixes(P) : P \in WirePackets}
    \cup UNION {Extensions(P) : P \in WirePackets}
    \cup {j \o WireOf(s) \o t : j \in Junks \cup {<<>>}, s \in Streams \cup {<<>>}, t \in Tails}

\* the bytes that have arrived are put into the empty Packet
Arrive(data) ==
    /\ pc = "idle"
    /\ m_data' = data
    /\ junk' = data
    /\ lastOp' = "Append"
    /\ ret' = [val |-> TRUE]
    /\ pc' = "check"
    /\ UNCHANGED <<M_highLevelFieldsValid, m_size, m_PID, wire, delivered, sent, engineVars>>

\* the ForwardScanForSync of the loop, logged; no more scans are followed
\* than one above the length of the buffer of entry
ResyncScan ==
    /\ pc = "scan"
    /\ Len(delivered) <= Len(junk)
    /\ ForwardScanForSync
    /\ delivered' = Append(delivered, Len(m_data))
    /\ pc' = "check"
    /\ UNCHANGED <<wire, sent, junk, engineVars>>

\* a step of the loop
ResyncLoop ==
    \/ Check
    \/ Validate
    \/ ResyncScan

NextResync ==
    \/ \E data \in ResyncBuffers : Arrive(data)
    \/ ResyncLoop

SpecResync == Init /\ [][NextResync]_vars

\* the receiver keeps running its loop
SpecResyncFair == SpecResync /\ WF_vars(ResyncLoop)

(***************************************************************************)
(* Properties of the resynchronisation, checked under SpecResyncFair.      *)
(***************************************************************************)
\* the loop has ended
ResyncEnded == pc \in {"recv", "dispatch"}

\* C32: from any buffer, with no further bytes arriving, the loop "while
\* IsFinished is true and CheckHash is false: ForwardScanForSync" ends; it
\* makes at most as many scans as the buffer of entry had bytes, and at its
\* end the buffer is empty, or IsFinished returns false for it, or it holds
\* a packet CheckHash returns true for.
C32_ResyncTerminates ==
    /\ (pc = "check") ~> ResyncEnded
    /\ [](Len(delivered) <= Len(junk))
    /\ [](ResyncEnded =>
             \/ m_data = <<>>
             \/ ~Packet_IsFinished(ThisPacket).ret
             \/ CheckHash(m_data))

\* the loop has ended after two scans on a packet CheckHash accepts
C32_Witness ==
    /\ ResyncEnded
    /\ Len(delivered) = 2
    /\ CheckHash(m_data)

\* the loop has ended after scans on a buffer still incomplete
C32_WitnessIncomplete ==
    /\ ResyncEnded
    /\ Len(delivered) >= 1
    /\ m_data # <<>>
    /\ ~Packet_IsFinished(ThisPacket).ret

(***************************************************************************)
(* Properties of ForwardScanForSync's result, checked under Spec.          *)
(***************************************************************************)
\* s is what is left of t when some of its first bytes are taken away
IsSuffix(s, t) ==
    /\ Len(s) <= Len(t)
    /\ s = SubSeq(t, Len(t) - Len(s) + 1, Len(t))

\* C33: after ForwardScanForSync the buffer is a suffix of the buffer it
\* was called on, and it is empty, or the single byte 0xDA, or begins with
\* 0xDA 0xA7.
C33_ScanShapes ==
    lastOp = "ForwardScanForSync" =>
        /\ IsSuffix(m_data, ret.old.m_data)
        /\ \/ m_data = <<>>
           \/ m_data = <<218>>
           \/ (Len(m_data) >= 2 /\ m_data[1] = 218 /\ m_data[2] = 167)

\* a scan has kept the bytes from a marker inside the buffer on
C33_Witness ==
    /\ lastOp = "ForwardScanForSync"
    /\ Len(m_data) >= 3
    /\ Len(m_data) < Len(ret.old.m_data)
    /\ m_data[1] = 218 /\ m_data[2] = 167

\* a scan has kept the lone 0xDA that ended the buffer
C33_WitnessLone ==
    /\ lastOp = "ForwardScanForSync"
    /\ m_data = <<218>>
    /\ Len(ret.old.m_data) >= 2

(***************************************************************************)
(* Properties of the variants of integers and strings, checked under       *)
(* SpecWire.                                                               *)
(***************************************************************************)
\* the variants whose fields are integers and strings
CanonicalVariants == {"Acknowledgment", "EmergencyCommand", "MessageString", "ExtendedTelemetry"}

\* the length the size formula of the variant gives for the message
SizeFormula(m) ==
    CASE m.variant = "Acknowledgment" -> 11
      [] m.variant = "EmergencyCommand" -> 10
      [] m.variant = "MessageString" -> 14 + Len(m.Message)
      [] m.variant = "ExtendedTelemetry" -> 25 + Len(m.DroneSerial)

\* C34: for Acknowledgment, EmergencyCommand, MessageString and
\* ExtendedTelemetry, a packet on which Deserialize returns true is what
\* Serialize of the decoded message writes, byte for byte; its length is
\* the size formula of the variant (11, 10, 14 + len(message),
\* 25 + len(serial)) and no payload byte is left undecoded.
C34_CanonicalEncoding ==
    (/\ lastOp = "Deserialize"
     /\ ret.val = TRUE
     /\ ret.target.variant \in CanonicalVariants)
        => /\ Serialize(ret.msg) = ret.old.m_data
           /\ Len(ret.old.m_data) = SizeFormula(ret.msg)

(***************************************************************************)
(* Properties of decodeField_Image's budget, checked under SpecWire.       *)
(***************************************************************************)
\* the rows and cols the Image field at the cursor of entry declares
DeclaredRows == decodeField_uint16(ret.old.m_data, ret.Iter0).val

DeclaredCols == decodeField_uint16(ret.old.m_data, ret.Iter0 + 2).val

\* 3*rows*cols + 4, the size of the declared image on the wire, exceeds the
\* budget of entry (a budget below 2^31), computed in the integers
TrueSizeExceedsBudget ==
    \/ U32ToNat(ret.MaxBytes0) < 4
    \/ /\ DeclaredRows > 0
       /\ DeclaredCols > ((U32ToNat(ret.MaxBytes0) - 4) \div 3) \div DeclaredRows

\* C35: when decodeField_Image decodes a rows x cols image, MaxBytes is
\* lower by 4 + 3*rows*cols on return and the cursor has advanced by the
\* same amount.
C35_ImageBudget ==
    (/\ lastOp = "decodeField_Image"
     /\ ~U32Less(ret.MaxBytes0, U32OfNat(4))
     /\ ~TrueSizeExceedsBudget)
        => /\ ret.MaxBytes = U32Sub(ret.MaxBytes0, DeclaredImageBytes)
           /\ ret.Iter = ret.Iter0 + U32ToNat(DeclaredImageBytes)

\* C36: for all 16-bit rows and cols and every budget MaxBytes, when
\* 3*rows*cols + 4 exceeds MaxBytes decodeField_Image aborts with an empty
\* image: the 32-bit totalBytes never wraps around to a value that passes
\* the test against the budget.
C36_ImageWithinBudget ==
    (lastOp = "decodeField_Image" /\ TrueSizeExceedsBudget) =>
        ret.val = Mat(0, 0, "CV_8UC3", <<>>)

(***************************************************************************)
(* StringNumberAwareCompare_LessThan (Utilities.hpp 73-131).  A            *)
(* std::string is the sequence of its character codes; s[s.size()] of a    *)
(* const std::string is the character 0.                                   *)
(***************************************************************************)
\* the strings compared have at most this many characters
MaxChars == 3

\* 'a', 'b', '0', '1', '2'
Chars == {97, 98, 48, 49, 50}

Texts == UNION {[1..n -> Chars] : n \in 0..MaxChars}

\* a[aInd] for aInd <= a.size()
CharAt(a, aInd) == IF aInd < Len(a) THEN a[aInd + 1] ELSE 0

IsDigit(c) == c >= 48 /\ c <= 57

\* a.find_first_not_of("0123456789", aInd), a.size() standing for npos
RECURSIVE FirstNonDigit(_, _)
FirstNonDigit(a, aInd) ==
    IF aInd >= Len(a) THEN Len(a)
    ELSE IF IsDigit(a[aInd + 1]) THEN FirstNonDigit(a, aInd + 1)
    ELSE aInd

\* std::stoul of the digits a[from .. to - 1]
RECURSIVE DigitsValue(_, _, _)
DigitsValue(a, from, to) ==
    IF from >= to THEN 0
    ELSE DigitsValue(a, from, to - 1) * 10 + (a[to] - 48)

\* the number returned and aInd as it is left
StripNumFromFromOfString(a, aInd) ==
    [number |-> DigitsValue(a, aInd, FirstNonDigit(a, aInd)),
     aInd |-> FirstNonDigit(a, aInd)]

\* the while loop of lines 93-121 from aInd, bInd on, and the test behind it
RECURSIVE LessThanFrom(_, _, _, _)
LessThanFrom(a, b, aInd, bInd) ==
    IF aInd < Len(a) /\ bInd <= Len(b)
    THEN LET aCharIsDigit == IsDigit(CharAt(a, aInd))
             bCharIsDigit == IsDigit(CharAt(b, bInd))
         IN  IF aCharIsDigit /\ ~bCharIsDigit THEN TRUE
             ELSE IF ~aCharIsDigit /\ bCharIsDigit THEN FALSE
             ELSE IF ~aCharIsDigit /\ ~bCharIsDigit
             THEN IF CharAt(a, aInd) < CharAt(b, bInd) THEN TRUE
                  ELSE IF CharAt(a, aInd) > CharAt(b, bInd) THEN FALSE
                  ELSE LessThanFrom(a, b, aInd + 1, bInd + 1)
             ELSE LET aNum == StripNumFromFromOfString(a, aInd)
                      bNum == StripNumFromFromOfString(b, bInd)
                  IN  IF aNum.number < bNum.number THEN TRUE
                      ELSE IF aNum.number > bNum.number THEN FALSE
                      ELSE LessThanFrom(a, b, aNum.aInd, bNum.aInd)
    ELSE aInd >= Len(a) /\ bInd < Len(b)

StringNumberAwareCompare_LessThan(a, b) == LessThanFrom(a, b, 0, 0)

(***************************************************************************)
(* SpecCompare: StringNumberAwareCompare_LessThan is called on two         *)
(* strings.  The function keeps no state, so a behaviour is one call.      *)
(***************************************************************************)
CompareStrings(a, b) ==
    /\ lastOp = "Init"
    /\ lastOp' = "StringNumberAwareCompare_LessThan"
    /\ ret' = [val |-> StringNumberAwareCompare_LessThan(a, b), a |-> a, b |-> b]
    /\ UNCHANGED packetVars
    /\ UNCHANGED <<loopVars, engineVars>>

NextCompare == \E a \in Texts, b \in Texts : CompareStrings(a, b)

SpecCompare == Init /\ [][NextCompare]_vars

(***************************************************************************)
(* Properties of the string ordering, checked under SpecCompare.           *)
(***************************************************************************)
\* C37: StringNumberAwareCompare_LessThan is a strict ordering on strings of
\* letters and digits, one a prefix of the other included: never a < a,
\* never both a < b and b < a; the empty string is less than every other
\* string, and digit runs compare by their value ("a2" < "a10").
C37_StrictOrdering ==
    lastOp = "StringNumberAwareCompare_LessThan" =>
        /\ ret.a = ret.b => ret.val = FALSE
        /\ ret.val = TRUE => ~StringNumberAwareCompare_LessThan(ret.b, ret.a)
        /\ (ret.a = <<>> /\ ret.b # <<>>) => ret.val = TRUE
        /\ (ret.a = <<97, 50>> /\ ret.b = <<97, 49, 48>>) => ret.val = TRUE

(***************************************************************************)
(* ShadowPropagationEngine (Utilities.hpp 297-408).  Every public method   *)
(* takes m_mutex with a std::scoped_lock for its whole body; a thread      *)
(* advances one statement at a time.  The ShadowDetectionEngine and        *)
(* ModuleMain are not part of the sources: the detection engine is a       *)
(* registry of callbacks handing out the smallest free handle, it runs     *)
(* every shadow map through the callback of the engine while that is       *)
(* registered, and ModuleMain takes the oldest unprocessed map under       *)
(* m_mutex.                                                                *)
(***************************************************************************)
\* shadow maps the detection engine produces in a behaviour
MaxMaps == 3

\* callbacks registered with the ShadowPropagationEngine at a time
MaxCallbacks == 3

\* handles the memory of m_callbackHandle may hold before the first Start
Handles == 0..1

\* handles callers pass to UnRegisterCallback
HandleArgs == 0..MaxCallbacks

ShadowPropagationEngine == "ShadowPropagationEngine"

ShadowMapOverlay == "ShadowMapOverlay"

\* the smallest non-negative token that is not a key of callbacks
RECURSIVE FreeTokenFrom(_, _)
FreeTokenFrom(callbacks, token) ==
    IF token \in DOMAIN callbacks THEN FreeTokenFrom(callbacks, token + 1) ELSE token

FreeToken(callbacks) == FreeTokenFrom(callbacks, 0)

\* callbacks[token] = Callback
Registered(callbacks, token, Callback) ==
    [h \in DOMAIN callbacks \cup {token} |-> IF h = token THEN Callback ELSE callbacks[h]]

\* callbacks.erase(Handle)
Erased(callbacks, Handle) == [h \in DOMAIN callbacks \ {Handle} |-> callbacks[h]]

\* the handles under which the engine has a callback with the detection engine
EngineRegistrations ==
    {h \in DOMAIN detectionCallbacks : detectionCallbacks[h] = ShadowPropagationEngine}

\* std::scoped_lock lock(m_mutex) of thread t, which goes on at statement at
Lock(t, at, arg) ==
    /\ calls[t] = Idle
    /\ m_mutex = "free"
    /\ m_mutex' = t
    /\ calls' = [calls EXCEPT ![t] = [at |-> at, arg |-> arg]]

\* thread t goes on at statement at, holding the lock
Goto(t, at, arg) == calls' = [calls EXCEPT ![t] = [at |-> at, arg |-> arg]]

\* thread t returns: the scoped_lock releases m_mutex
Return(t) ==
    /\ m_mutex' = "free"
    /\ calls' = [calls EXCEPT ![t] = Idle]

historyVars == <<arrived, processedMaps>>

Start_Lock(t) ==
    /\ Lock(t, "Start_clear", 0)
    /\ lastOp' = "Start_Lock"
    /\ ret' = [val |-> m_running]
    /\ UNCHANGED <<m_running, m_callbackHandle, m_callbacks, m_unprocessedShadowMaps,
                   detectionCallbacks, historyVars>>

Start_Clear(t) ==
    /\ calls[t].at = "Start_clear"
    /\ m_unprocessedShadowMaps' = <<>>
    /\ Goto(t, "Start_test", 0)
    /\ lastOp' = "Start_Clear"
    /\ ret' = [val |-> m_running]
    /\ UNCHANGED <<m_mutex, m_running, m_callbackHandle, m_callbacks, detectionCallbacks,
                   historyVars>>

\* Start while running stops here, before any callback is registered
Start_Test_Never(t) ==
    /\ calls[t].at = "Start_test"
    /\ Goto(t, "Start_register", 0)
    /\ lastOp' = "Start_Test"
    /\ ret' = [val |-> m_running]
    /\ UNCHANGED <<m_mutex, m_running, m_callbackHandle, m_callbacks, m_unprocessedShadowMaps,
                   detectionCallbacks, historyVars>>

Start_Test(t) ==
    /\ calls[t].at = "Start_test"
    /\ IF m_running
       THEN Return(t)
       ELSE Goto(t, "Start_register", 0) /\ UNCHANGED m_mutex
    /\ lastOp' = "Start_Test"
    /\ ret' = [val |-> m_running]
    /\ UNCHANGED <<m_running, m_callbackHandle, m_callbacks, m_unprocessedShadowMaps,
                   detectionCallbacks, historyVars>>

Start_Register(t) ==
    /\ calls[t].at = "Start_register"
    /\ m_callbackHandle' = FreeToken(detectionCallbacks)
    /\ detectionCallbacks' =
           Registered(detectionCallbacks, FreeToken(detectionCallbacks), ShadowPropagationEngine)
    /\ Goto(t, "Start_set", 0)
    /\ lastOp' = "Start_Register"
    /\ ret' = [val |-> m_running]
    /\ UNCHANGED <<m_mutex, m_running, m_callbacks, m_unprocessedShadowMaps, historyVars>>

Start_Set(t) ==
    /\ calls[t].at = "Start_set"
    /\ m_running' = TRUE
    /\ Return(t)
    /\ lastOp' = "Start"
    /\ ret' = [val |-> m_running]
    /\ UNCHANGED <<m_callbackHandle, m_callbacks, m_unprocessedShadowMaps, detectionCallbacks,
                   historyVars>>

Stop_Lock(t) ==
    /\ Lock(t, "Stop_test", 0)
    /\ lastOp' = "Stop_Lock"
    /\ ret' = [val |-> m_running]
    /\ UNCHANGED <<m_running, m_callbackHandle, m_callbacks, m_unprocessedShadowMaps,
                   detectionCallbacks, historyVars>>

Stop_Test(t) ==
    /\ calls[t].at = "Stop_test"
    /\ IF ~m_running
       THEN Return(t)
       ELSE Goto(t, "Stop_unregister", 0) /\ UNCHANGED m_mutex
    /\ lastOp' = "Stop_Test"
    /\ ret' = [val |-> m_running]
    /\ UNCHANGED <<m_running, m_callbackHandle, m_callbacks, m_unprocessedShadowMaps,
                   detectionCallbacks, historyVars>>

Stop_UnRegister(t) ==
    /\ calls[t].at = "Stop_unregister"
    /\ detectionCallbacks' = Erased(detectionCallbacks, m_callbackHandle)
    /\ Goto(t, "Stop_set", 0)
    /\ lastOp' = "Stop_UnRegister"
    /\ ret' = [val |-> m_running]
    /\ UNCHANGED <<m_mutex, m_running, m_callbackHandle, m_callbacks, m_unprocessedShadowMaps,
                   historyVars>>

Stop_Set(t) ==
    /\ calls[t].at = "Stop_set"
    /\ m_running' = FALSE
    /\ Return(t)
    /\ lastOp' = "Stop"
    /\ ret' = [val |-> m_running]
    /\ UNCHANGED <<m_callbackHandle, m_callbacks, m_unprocessedShadowMaps, detectionCallbacks,
                   historyVars>>

IsRunning_Lock(t) ==
    /\ Lock(t, "IsRunning_return", 0)
    /\ lastOp' = "IsRunning_Lock"
    /\ ret' = [val |-> m_running]
    /\ UNCHANGED <<m_running, m_callbackHandle, m_callbacks, m_unprocessedShadowMaps,
                   detectionCallbacks, historyVars>>

IsRunning_Return(t) ==
    /\ calls[t].at = "IsRunning_return"
    /\ Return(t)
    /\ lastOp' = "IsRunning"
    /\ ret' = [val |-> m_running]
    /\ UNCHANGED <<m_running, m_callbackHandle, m_callbacks, m_unprocessedShadowMaps,
                   detectionCallbacks, historyVars>>

\* the constructor of the ShadowMapOverlay registers its callback
Overlay_Register ==
    /\ \A h \in DOMAIN detectionCallbacks : detectionCallbacks[h] # ShadowMapOverlay
    /\ detectionCallbacks' =
           Registered(detectionCallbacks, FreeToken(detectionCallbacks), ShadowMapOverlay)
    /\ lastOp' = "Overlay_Register"
    /\ ret' = [val |-> m_running]
    /\ UNCHANGED <<m_mutex, m_running, m_callbackHandle, m_callbacks, m_unprocessedShadowMaps,
                   calls, historyVars>>

\* the detection engine has a new shadow map and calls the callback of the engine
Callback_Call ==
    /\ calls[DetectionThread] = Idle
    /\ EngineRegistrations # {}
    /\ arrived < MaxMaps
    /\ arrived' = arrived + 1
    /\ Goto(DetectionThread, "Callback_lock", arrived + 1)
    /\ lastOp' = "Callback_Call"
    /\ ret' = [val |-> m_running]
    /\ UNCHANGED <<m_mutex, m_running, m_callbackHandle, m_callbacks, m_unprocessedShadowMaps,
                   detectionCallbacks, processedMaps>>

Callback_Lock ==
    /\ calls[DetectionThread].at = "Callback_lock"
    /\ m_mutex = "free"
    /\ m_mutex' = DetectionThread
    /\ Goto(DetectionThread, "Callback_push", calls[DetectionThread].arg)
    /\ lastOp' = "Callback_Lock"
    /\ ret' = [val |-> m_running]
    /\ UNCHANGED <<m_running, m_callbackHandle, m_callbacks, m_unprocessedShadowMaps,
                   detectionCallbacks, historyVars>>

Callback_Push ==
    /\ calls[DetectionThread].at = "Callback_push"
    /\ m_unprocessedShadowMaps' = Append(m_unprocessedShadowMaps, calls[DetectionThread].arg)
    /\ Return(DetectionThread)
    /\ lastOp' = "Callback"
    /\ ret' = [val |-> m_running]
    /\ UNCHANGED <<m_running, m_callbackHandle, m_callbacks, detectionCallbacks, historyVars>>

\* ModuleMain takes the oldest unprocessed shadow map, under m_mutex
ModuleMain_Take ==
    /\ m_mutex = "free"
    /\ m_unprocessedShadowMaps # <<>>
    /\ processedMaps' = Append(processedMaps, Head(m_unprocessedShadowMaps))
    /\ m_unprocessedShadowMaps' = Tail(m_unprocessedShadowMaps)
    /\ lastOp' = "ModuleMain"
    /\ ret' = [val |-> m_running]
    /\ UNCHANGED <<m_mutex, m_running, m_callbackHandle, m_callbacks, detectionCallbacks,
                   calls, arrived>>

InitEngineSpec ==
    /\ \E handle \in Handles : InitEngine(handle)
    /\ m_data = <<>>
    /\ M_highLevelFieldsValid = FALSE
    /\ m_size = NoHeader
    /\ m_PID = NoHeader
    /\ lastOp = "Init"
    /\ ret = [val |-> FALSE]
    /\ wire = <<>>
    /\ pc = "idle"
    /\ delivered = <<>>
    /\ sent = <<>>
    /\ junk = <<>>

NextEngine ==
    \/ \E t \in Callers : Start_Lock(t) /\ UNCHANGED <<packetVars, loopVars>>
    \/ \E t \in Callers : Start_Clear(t) /\ UNCHANGED <<packetVars, loopVars>>
    \/ \E t \in Callers : Start_Test(t) /\ UNCHANGED <<packetVars, loopVars>>
    \/ \E t \in Callers : Start_Register(t) /\ UNCHANGED <<packetVars, loopVars>>
    \/ \E t \in Callers : Start_Set(t) /\ UNCHANGED <<packetVars, loopVars>>
    \/ \E t \in Callers : Stop_Lock(t) /\ UNCHANGED <<packetVars, loopVars>>
    \/ \E t \in Callers : Stop_Test(t) /\ UNCHANGED <<packetVars, loopVars>>
    \/ \E t \in Callers : Stop_UnRegister(t) /\ UNCHANGED <<packetVars, loopVars>>
    \/ \E t \in Callers : Stop_Set(t) /\ UNCHANGED <<packetVars, loopVars>>
    \/ \E t \in Callers : IsRunning_Lock(t) /\ UNCHANGED <<packetVars, loopVars>>
    \/ \E t \in Callers : IsRunning_Return(t) /\ UNCHANGED <<packetVars, loopVars>>
    \/ Overlay_Register /\ UNCHANGED <<packetVars, loopVars>>
    \/ Callback_Call /\ UNCHANGED <<packetVars, loopVars>>
    \/ Callback_Lock /\ UNCHANGED <<packetVars, loopVars>>
    \/ Callback_Push /\ UNCHANGED <<packetVars, loopVars>>
    \/ ModuleMain_Take /\ UNCHANGED <<packetVars, loopVars>>

SpecEngine == InitEngineSpec /\ [][NextEngine]_vars


(***************************************************************************)
(* Properties of Start, Stop and IsRunning, checked under SpecEngine.      *)
(***************************************************************************)
\* the registrations of the ShadowMapOverlay stay as they are in this step
OverlayKept ==
    \A h \in DOMAIN detectionCallbacks :
        detectionCallbacks[h] = ShadowMapOverlay =>
            h \in DOMAIN detectionCallbacks' /\ detectionCallbacks'[h] = ShadowMapOverlay

\* C38: under every interleaving of Start, Stop and IsRunning, whenever no
\* thread is inside a method m_running is true exactly when one callback of
\* the engine is registered with the detection engine, under the handle in
\* m_callbackHandle; there are never two; Start while running registers
\* none, Stop while stopped removes none, and Stop removes the registration
\* of the matching Start and no other.
C38_StartStop ==
    /\ [](Cardinality(EngineRegistrations) <= 1)
    /\ [](m_mutex = "free" =>
            IF m_running THEN EngineRegistrations = {m_callbackHandle}
                         ELSE EngineRegistrations = {})
    /\ [](lastOp = "IsRunning" => (ret.val <=> EngineRegistrations # {}))
    /\ [][m_running => EngineRegistrations' \subseteq EngineRegistrations]_vars
    /\ [][~m_running => EngineRegistrations \subseteq EngineRegistrations']_vars
    /\ [][OverlayKept]_vars

\* a Start has returned early on a running engine whose handle is 1, behind
\* the overlay's handle 0
C38_Witness ==
    /\ lastOp = "Start_Test"
    /\ ret.val = TRUE
    /\ m_mutex = "free"
    /\ m_running
    /\ m_callbackHandle = 1
    /\ DOMAIN detectionCallbacks = {0, 1}

\* a Stop has returned early on a stopped engine that had run before
C38_WitnessStopped ==
    /\ lastOp = "Stop_Test"
    /\ ret.val = FALSE
    /\ m_mutex = "free"
    /\ arrived > 0
    /\ DOMAIN detectionCallbacks = {0}

(***************************************************************************)
(* Properties of the buffer of unprocessed shadow maps, checked under      *)
(* SpecEngine.                                                             *)
(***************************************************************************)
MapsIn(maps) == {maps[i] : i \in 1..Len(maps)}

InArrivalOrder(maps) == \A i, j \in 1..Len(maps) : i < j => maps[i] < maps[j]

\* C40: while the engine is running no shadow map is missed: every map the
\* callback was given is appended to m_unprocessedShadowMaps by the thread
\* holding m_mutex, in arrival order, and a map in the buffer stays there
\* until the processing thread takes it, whatever Start, Stop and the
\* accessors do meanwhile, a Start on the running engine included.
C40_NoMapMissed ==
    /\ [](InArrivalOrder(m_unprocessedShadowMaps) /\ InArrivalOrder(processedMaps))
    /\ [][Len(m_unprocessedShadowMaps') > Len(m_unprocessedShadowMaps) =>
            m_mutex = DetectionThread]_vars
    /\ [][(m_running /\ m_running') =>
            MapsIn(m_unprocessedShadowMaps) \subseteq
                MapsIn(m_unprocessedShadowMaps') \cup MapsIn(processedMaps')]_vars

(***************************************************************************)
(* SpecCallbacks: threads register and unregister callbacks for new        *)
(* TimeAvailableFunctions (Utilities.hpp 394-408).                         *)
(***************************************************************************)
\* m_callbacks.count(token) > 0U, answered as if no token were taken
TokenTaken_Never(callbacks, token) == FALSE

\* m_callbacks.count(token) > 0U
TokenTaken(callbacks, token) == token \in DOMAIN callbacks

RegisterCallback_Lock(t) ==
    /\ Cardinality(DOMAIN m_callbacks) < MaxCallbacks
    /\ Lock(t, "RegisterCallback_while", 0)
    /\ lastOp' = "RegisterCallback_Lock"
    /\ ret' = [val |-> 0, old |-> m_callbacks]
    /\ UNCHANGED <<m_running, m_callbackHandle, m_callbacks, m_unprocessedShadowMaps,
                   detectionCallbacks, historyVars>>

\* while (m_callbacks.count(token) > 0U) token++;
RegisterCallback_While(t) ==
    /\ calls[t].at = "RegisterCallback_while"
    /\ IF TokenTaken(m_callbacks, calls[t].arg)
       THEN Goto(t, "RegisterCallback_while", calls[t].arg + 1)
       ELSE Goto(t, "RegisterCallback_store", calls[t].arg)
    /\ lastOp' = "RegisterCallback_While"
    /\ ret' = [val |-> calls[t].arg, old |-> m_callbacks]
    /\ UNCHANGED <<m_mutex, m_running, m_callbackHandle, m_callbacks, m_unprocessedShadowMaps,
                   detectionCallbacks, historyVars>>

\* m_callbacks[token] = Callback; return token;  the callback of thread t is t
RegisterCallback_Store(t) ==
    /\ calls[t].at = "RegisterCallback_store"
    /\ m_callbacks' = Registered(m_callbacks, calls[t].arg, t)
    /\ Return(t)
    /\ lastOp' = "RegisterCallback"
    /\ ret' = [val |-> calls[t].arg, old |-> m_callbacks]
    /\ UNCHANGED <<m_running, m_callbackHandle, m_unprocessedShadowMaps, detectionCallbacks,
                   historyVars>>

UnRegisterCallback_Lock(t, Handle) ==
    /\ Lock(t, "UnRegisterCallback_erase", Handle)
    /\ lastOp' = "UnRegisterCallback_Lock"
    /\ ret' = [val |-> Handle, old |-> m_callbacks]
    /\ UNCHANGED <<m_running, m_callbackHandle, m_callbacks, m_unprocessedShadowMaps,
                   detectionCallbacks, historyVars>>

UnRegisterCallback_Erase(t) ==
    /\ calls[t].at = "UnRegisterCallback_erase"
    /\ m_callbacks' = Erased(m_callbacks, calls[t].arg)
    /\ Return(t)
    /\ lastOp' = "UnRegisterCallback"
    /\ ret' = [val |-> calls[t].arg, old |-> m_callbacks]
    /\ UNCHANGED <<m_running, m_callbackHandle, m_unprocessedShadowMaps, detectionCallbacks,
                   historyVars>>

NextCallbacks ==
    \/ \E t \in Callers : RegisterCallback_Lock(t) /\ UNCHANGED <<packetVars, loopVars>>
    \/ \E t \in Callers : RegisterCallback_While(t) /\ UNCHANGED <<packetVars, loopVars>>
    \/ \E t \in Callers : RegisterCallback_Store(t) /\ UNCHANGED <<packetVars, loopVars>>
    \/ \E t \in Callers, Handle \in HandleArgs :
          UnRegisterCallback_Lock(t, Handle) /\ UNCHANGED <<packetVars, loopVars>>
    \/ \E t \in Callers : UnRegisterCallback_Erase(t) /\ UNCHANGED <<packetVars, loopVars>>
    \/ \E t \in Callers : IsRunning_Lock(t) /\ UNCHANGED <<packetVars, loopVars>>
    \/ \E t \in Callers : IsRunning_Return(t) /\ UNCHANGED <<packetVars, loopVars>>

SpecCallbacks == InitEngineSpec /\ [][NextCallbacks]_vars

(***************************************************************************)
(* Properties of the callback tokens, checked under SpecCallbacks.         *)
(***************************************************************************)
\* the callbacks other than the one under Handle are the same in both maps
SameBut(callbacks, others, Handle) ==
    /\ DOMAIN callbacks \ {Handle} = DOMAIN others \ {Handle}
    /\ \A h \in DOMAIN callbacks \ {Handle} : callbacks[h] = others[h]

\* C39: RegisterCallback returns the smallest non-negative token that is not
\* registered at that moment and adds a registration under it, leaving all
\* others alone, so no two live registrations share a token and a token is
\* handed out again only after it was unregistered; UnRegisterCallback
\* removes the registration with the given handle and no other, and changes
\* nothing for a handle that is not registered; no registration changes
\* otherwise.
C39_CallbackTokens ==
    /\ [](lastOp = "RegisterCallback" =>
            /\ ret.val >= 0
            /\ ret.val \notin DOMAIN ret.old
            /\ \A h \in 0..(ret.val - 1) : h \in DOMAIN ret.old
            /\ ret.val \in DOMAIN m_callbacks
            /\ SameBut(m_callbacks, ret.old, ret.val))
    /\ [](lastOp = "UnRegisterCallback" =>
            /\ ret.val \notin DOMAIN m_callbacks
            /\ SameBut(m_callbacks, ret.old, ret.val)
            /\ ret.val \notin DOMAIN ret.old => m_callbacks = ret.old)
    /\ [][m_callbacks' # m_callbacks => lastOp' \in {"RegisterCallback", "UnRegisterCallback"}]_vars

\* token 0 was unregistered while token 1 was live and has been handed out again
C39_Witness ==
    /\ lastOp = "RegisterCallback"
    /\ ret.val = 0
    /\ DOMAIN ret.old = {1}
    /\ m_callbacks[0] # m_callbacks[1]

\* UnRegisterCallback was called with a handle that is not registered
C39_WitnessUnknown ==
    /\ lastOp = "UnRegisterCallback"
    /\ ret.val \notin DOMAIN ret.old
    /\ ret.old # NoCallbacks

====
